---- MODULE Spec2Model ----
(***************************************************************************)
(* Model of the workio session-telemetry pipeline:                         *)
(*   - the debounced per-session reconciler (worker.py process_session)    *)
(*     and the daemon's start_debounced_worker, as concurrent processes    *)
(*     that share the marker file and the lock file of one session;        *)
(*   - the transcript pass (worker.py process_transcript) over the         *)
(*     messages table (db.py);                                             *)
(*   - the daemon's hook processing (monitor_daemon.py process_event)      *)
(*     over the projects / sessions / prompts / hooks tables.              *)
(*                                                                         *)
(* Timestamps.  The code writes datetime.now().isoformat() into the        *)
(* marker ('start', 'latest') and the lock file.  It uses 'latest' only    *)
(* for equality with a worker's own timestamp, and 'start' and the lock    *)
(* time only through the elapsed time (now - t).  The model therefore      *)
(* keeps 'latest' as the number of the hook that wrote it (hooks are       *)
(* numbered in arrival order, microsecond timestamps being distinct) and   *)
(* keeps 'start' and the lock time as the elapsed seconds since they were  *)
(* written, advanced by Tick and capped at the threshold they are compared *)
(* with.                                                                   *)
(***************************************************************************)
EXTENDS Integers, Sequences, FiniteSets, TLC

\* ------------------------------------------------------------------ bounds
\* Number of hooks of the session (each spawns one worker process).
MaxHooks == 3
\* One-second steps taken while one lock file exists (see Tick).
MaxLockAge == 3

\* ------------------------------------------------------- program constants
DEBOUNCE_SECONDS == 2
LOCK_TIMEOUT_FACTOR == 30
lock_wait_interval == 1
lock_timeout == DEBOUNCE_SECONDS * LOCK_TIMEOUT_FACTOR

\* An absent file (hooks and workers are numbered from 1).
NoMarker == [start |-> 0, latest |-> 0]
NoLock == [age |-> 0, owner |-> 0]

Workers == 1..MaxHooks

Min(a, b) == IF a < b THEN a ELSE b
Max(a, b) == IF a < b THEN b ELSE a

VARIABLES
    \* --- filesystem state of the session (debounce/<sid>.marker, .lock)
    marker,      \* NoMarker, or [start |-> elapsed seconds, latest |-> hook number]
    lock,        \* NoLock, or [age |-> elapsed seconds, owner |-> writing worker]
    \* --- the daemon
    nhooks,      \* hooks whose start_debounced_worker has run
    \* --- one worker process per hook: worker w has timestamp w
    pc,          \* position of each worker in process_session
    lat,         \* latest_timestamp read from the marker (0: not read)
    cur,         \* current_marker['latest'] read at clean-up (0: not read)
    slept,       \* seconds slept in the current time.sleep
    err,         \* "none", or the exception being propagated: "db" (raised by
                 \* the database driver) or "other"
    logs,        \* the log record written last: <<worker, message>>
    \* --- observation (history) variables
    lastPassAt,  \* nhooks at the latest call of process_transcript (0: none)
    hookDuring,  \* per running worker: the last hook that rewrote the marker
                 \* while the worker was between acquiring the lock and
                 \* finishing its clean-up (0: none)
    tailHook,    \* the last such hook of the workers that have returned
                 \* normally (0: none)
    passes,      \* the latest_timestamp each call of process_transcript was
                 \* made with, in the order of the calls (recorded while
                 \* burst holds)
    burst        \* every hook so far arrived less than DEBOUNCE_SECONDS
                 \* after the first

\* The database (schema.sql, accessed through db.py), the transcript files
\* and the processes the daemon starts.
VARIABLES
    uuidUnique,  \* whether the schema declares messages.uuid UNIQUE
    serial,      \* next value of the id sequence of each table
    projects,    \* set of rows [id, path]
    sessions,    \* session_id -> row, or NoSession
    prompts,     \* set of rows [id, session_id, prompt]
    hooks,       \* rows [session_id, hook_type] in insertion order
    messages,    \* set of rows [id, prompt_id, uuid, body, is_user, tools, todo_id]
    \* --- the transcript file of each session (append-only JSONL)
    transcript,
    \* --- processes started by the daemon after its commit
    spawned,     \* session_id -> number of worker.py processes started
    sweepers,    \* cleanup_worker.py processes started and not yet run
    \* --- observation (history) variables
    passed,      \* session_id -> length of the transcript at its last
                 \* committed pass; -1: none yet
    ret,         \* outcome of the last transcript pass
    firstProject, \* session_id -> project path at the first insertion of
                 \* its row; "": never inserted
    lastEvent    \* the hook event the daemon processed last

\* The daemon's socket handlers (monitor_daemon.py HookHandler, one thread per
\* connection) and its one shared database connection.
VARIABLES
    hpc,         \* position of each handler thread
    req,         \* the request line each thread has read
    herr,        \* the exception a thread is propagating ("none": none)
    responses,   \* the response lines each thread has written
    db_lock,     \* the thread holding _db_lock (0: free)
    txn,         \* the uncommitted work of the shared connection
    delivered,   \* the notifications delivered to listeners, in order
    \* --- observation (history) variables
    received,    \* the threads, in the order the daemon accepted their
                 \* connections and read their request lines
    committed    \* [thread, whole]: the threads whose database section was
                 \* committed, in commit order, and whether all of it was

\* The settings row and the sweeper's clock.
VARIABLES
    favorite_sessions, \* settings.config.favorite_sessions
    sweepIn      \* observation: what the last sweeper run found the ages of
                 \* the rows to be

\* The pure functions of the pipeline, applied to one input after another.
VARIABLES
    fin,         \* the arguments of the latest call
    fout         \* what it returned

\* The transcript file as the reconciler finds it.
VARIABLES
    unread,      \* observation: the workers whose pass could not read the
                 \* transcript file (missing, or an I/O error)
    runs,        \* the transcript passes that run as transactions of their
                 \* own, statement by statement
    conn         \* the transaction of each worker's connection: "clean",
                 \* "dirty" (statements of a pass, not committed),
                 \* "committed" (those of a pass), "closed" (dropped)

svars == <<hpc, req, herr, responses, db_lock, txn, delivered, received,
           committed>>
cvars == <<favorite_sessions, sweepIn>>
fvars == <<fin, fout>>
rvars == <<unread, runs, conn>>
pvars == <<fvars, rvars>>
xvars == <<svars, cvars, pvars>>
wvars == <<marker, lock, nhooks, pc, lat, cur, slept, err, logs,
           lastPassAt, hookDuring, tailHook, passes, burst>>
dbVars == <<uuidUnique, serial, projects, sessions, prompts, hooks, messages,
            transcript, spawned, sweepers, passed, ret, firstProject,
            lastEvent>>
vars == <<wvars, dbVars, xvars>>

\* Positions between line 590 (lock written) and line 632 (clean-up finished).
CleanupWindow == {"recheck_marker", "get_session", "process_transcript",
                  "cleanup_read", "cleanup_decide"}
\* Positions past writing the lock and not yet past removing it.
LockedRegion == CleanupWindow \cup {"release"}
Exited == {"done", "failed"}

\* --------------------------------------------------------------- daemon
\* monitor_daemon.py start_debounced_worker: upsert the marker (keep 'start'
\* of an existing marker, set 'latest' to now) and spawn worker.py with now.
StartDebouncedWorker ==
    /\ nhooks < MaxHooks
    /\ UNCHANGED <<dbVars, xvars>>
    /\ LET h == nhooks + 1 IN
        /\ nhooks' = h
        /\ marker' = [start  |-> IF marker = NoMarker THEN 0 ELSE marker.start,
                      latest |-> h]
        /\ pc' = [pc EXCEPT ![h] = "sleep"]
        /\ hookDuring' = [w \in Workers |->
                            IF pc[w] \in CleanupWindow THEN h ELSE hookDuring[w]]
        /\ burst' = (burst /\ (nhooks = 0 \/ (pc[1] = "sleep"
                                               /\ slept[1] < DEBOUNCE_SECONDS)))
        /\ passes' = IF burst' THEN passes ELSE <<>>
    /\ UNCHANGED <<lock, lat, cur, slept, err, logs, lastPassAt, tailHook>>

\* Every elapsed time grows by d seconds (capped at the largest value any
\* comparison distinguishes).
Elapse(d) ==
    /\ marker' = IF marker = NoMarker THEN NoMarker
                 ELSE [marker EXCEPT !.start = Min(@ + d, DEBOUNCE_SECONDS)]
    /\ lock' = IF lock = NoLock THEN NoLock
               ELSE [lock EXCEPT !.age = Min(@ + d, lock_timeout)]
    /\ slept' = [w \in Workers |->
                    IF pc[w] = "sleep" THEN Min(slept[w] + d, DEBOUNCE_SECONDS)
                    ELSE IF pc[w] = "lock_sleep"
                         THEN Min(slept[w] + d, lock_wait_interval)
                         ELSE slept[w]]
    /\ <<marker', lock', slept'>> # <<marker, lock, slept>>
    /\ UNCHANGED <<dbVars, xvars>>
    /\ UNCHANGED <<nhooks, pc, lat, cur, err, logs, lastPassAt, passes, burst,
                   hookDuring, tailHook>>

\* One second passes.  While a lock file exists the model takes at most
\* MaxLockAge such steps; a lock grows older than that only by LongPause.
Tick ==
    /\ lock # NoLock => lock.age < MaxLockAge
    /\ Elapse(1)

\* lock_timeout seconds pass with no process taking a step (the processes
\* are independent and may be descheduled for any time).
LongPause == Elapse(lock_timeout)

\* --------------------------------------------------------------- worker
Goto(w, l) == pc' = [pc EXCEPT ![w] = l]
Log(w, m) == logs' = <<w, m>>

\* The worker process ends (return, or RuntimeError raised): its locals go.
Exit(w, l) ==
    /\ Goto(w, l)
    /\ lat' = [lat EXCEPT ![w] = 0]
    /\ cur' = [cur EXCEPT ![w] = 0]
    /\ hookDuring' = [hookDuring EXCEPT ![w] = 0]
    /\ tailHook' = IF l = "done" THEN Max(tailHook, hookDuring[w]) ELSE tailHook

\* worker.py:530-539  time.sleep(DEBOUNCE_SECONDS), then
\* if not marker_file.exists(): log, return
DebounceSleep(w) ==
    /\ pc[w] = "sleep"
    /\ UNCHANGED <<dbVars, xvars>>
    /\ slept[w] >= DEBOUNCE_SECONDS
    /\ slept' = [slept EXCEPT ![w] = 0]
    /\ IF marker = NoMarker
       THEN Exit(w, "done") /\ Log(w, "Marker file not found, skipping")
       ELSE Goto(w, "read_marker")
            /\ UNCHANGED <<logs, lat, cur, hookDuring, tailHook>>
    /\ UNCHANGED <<marker, lock, nhooks, err, lastPassAt, passes, burst>>

\* worker.py:552  is_latest = (latest_timestamp == timestamp)
is_latest(w, latest) == latest = w
\* (mutant of debounce_expired: the debounce period has to be exceeded)
debounce_expired_strictly(start) == start > DEBOUNCE_SECONDS

\* worker.py:556-558  elapsed >= DEBOUNCE_SECONDS
debounce_expired(start) == start >= DEBOUNCE_SECONDS

\* worker.py:541-567  read the marker, then the debounce gate.  A marker
\* removed since the exists() test makes read_text raise FileNotFoundError,
\* which only the outer handler (line 640) catches.
ReadMarker(w) ==
    /\ pc[w] = "read_marker"
    /\ UNCHANGED <<dbVars, xvars>>
    /\ IF marker = NoMarker
       THEN /\ err' = [err EXCEPT ![w] = "other"]
            /\ Goto(w, "worker_error")
            /\ UNCHANGED <<lat, cur, logs, hookDuring, tailHook>>
       ELSE /\ IF ~is_latest(w, marker.latest) /\ ~debounce_expired(marker.start)
               THEN Exit(w, "done") /\ Log(w, "Newer event detected, skipping")
               ELSE /\ Goto(w, "lock_exists")
                    /\ lat' = [lat EXCEPT ![w] = marker.latest]
                    /\ UNCHANGED <<cur, logs, hookDuring, tailHook>>
            /\ UNCHANGED err
    /\ UNCHANGED <<marker, lock, nhooks, slept, lastPassAt, passes, burst>>

\* worker.py:574  while lock_file.exists():
LockExists(w) ==
    /\ pc[w] = "lock_exists"
    /\ UNCHANGED <<dbVars, xvars>>
    /\ Goto(w, IF lock = NoLock THEN "lock_write" ELSE "lock_read")
    /\ UNCHANGED <<marker, lock, nhooks, lat, cur, slept, err, logs,
                   lastPassAt, passes, burst, hookDuring, tailHook>>

\* (mutant of lock_is_stale: no lock is ever taken for stale)
lock_is_stale_never(age) == age > lock_timeout

\* worker.py:578  lock_age >= lock_timeout
lock_is_stale(age) == age >= lock_timeout

\* worker.py:576-587  read the lock's timestamp; stale: go and unlink it;
\* fresh: log and sleep; vanished (FileNotFoundError): leave the loop.
LockRead(w) ==
    /\ pc[w] = "lock_read"
    /\ UNCHANGED <<dbVars, xvars>>
    /\ IF lock = NoLock
       THEN Goto(w, "lock_write") /\ UNCHANGED logs
       ELSE IF lock_is_stale(lock.age)
            THEN Goto(w, "lock_unlink") /\ UNCHANGED logs
            ELSE Goto(w, "lock_sleep") /\ Log(w, "Waiting for lock")
    /\ UNCHANGED <<marker, lock, nhooks, lat, cur, slept, err,
                   lastPassAt, passes, burst, hookDuring, tailHook>>

\* worker.py:580-581  lock_file.unlink(); break   (FileNotFoundError: break)
LockUnlink(w) ==
    /\ pc[w] = "lock_unlink"
    /\ UNCHANGED <<dbVars, xvars>>
    /\ lock' = NoLock
    /\ Goto(w, "lock_write")
    /\ UNCHANGED <<marker, nhooks, lat, cur, slept, err, logs,
                   lastPassAt, passes, burst, hookDuring, tailHook>>

\* worker.py:585, 574  time.sleep(lock_wait_interval), then the loop test
LockSleep(w) ==
    /\ pc[w] = "lock_sleep"
    /\ UNCHANGED <<dbVars, xvars>>
    /\ slept[w] >= lock_wait_interval
    /\ slept' = [slept EXCEPT ![w] = 0]
    /\ Goto(w, IF lock = NoLock THEN "lock_write" ELSE "lock_read")
    /\ UNCHANGED <<marker, lock, nhooks, lat, cur, err, logs,
                   lastPassAt, passes, burst, hookDuring, tailHook>>

\* worker.py:590  lock_file.write_text(datetime.now().isoformat())
LockWrite(w) ==
    /\ pc[w] = "lock_write"
    /\ UNCHANGED <<dbVars, xvars>>
    /\ lock' = [age |-> 0, owner |-> w]
    /\ Goto(w, "recheck_marker")
    /\ UNCHANGED <<marker, nhooks, lat, cur, slept, err, logs,
                   lastPassAt, passes, burst, hookDuring, tailHook>>

\* (mutant of RecheckMarker: the marker is not looked at again)
RecheckMarker_Unchecked(w) ==
    /\ pc[w] = "recheck_marker"
    /\ UNCHANGED <<dbVars, xvars>>
    /\ Goto(w, "get_session")
    /\ UNCHANGED <<marker, lock, nhooks, lat, cur, slept, err, logs,
                   lastPassAt, passes, burst, hookDuring, tailHook>>

\* worker.py:594-598  marker gone after the lock was acquired: return
\* (through the finally clause that releases the lock)
RecheckMarker(w) ==
    /\ pc[w] = "recheck_marker"
    /\ UNCHANGED <<dbVars, xvars>>
    /\ IF marker = NoMarker
       THEN Goto(w, "release")
            /\ Log(w, "Marker file gone after lock acquired, skipping")
       ELSE Goto(w, "get_session") /\ UNCHANGED logs
    /\ UNCHANGED <<marker, lock, nhooks, lat, cur, slept, err,
                   lastPassAt, passes, burst, hookDuring, tailHook>>

\* An exception raised inside the try block of line 592: the finally clause
\* releases the lock, then the handler of line 640 runs.
Raise(w, e) ==
    /\ err' = [err EXCEPT ![w] = e]
    /\ Goto(w, "release")

\* worker.py:604  session = get_session(conn, session_id)
\* (db.py:147-154: a SELECT; the only exceptions are the driver's)
GetSession(w) ==
    /\ pc[w] = "get_session"
    /\ UNCHANGED <<dbVars, xvars>>
    /\ \/ Goto(w, "process_transcript") /\ UNCHANGED err
       \/ Raise(w, "db")
    /\ UNCHANGED <<marker, lock, nhooks, lat, cur, slept, logs,
                   lastPassAt, passes, burst, hookDuring, tailHook>>

\* worker.py:606-620  process_transcript, notify, log, commit, close
ProcessTranscriptCall(w) ==
    /\ pc[w] = "process_transcript"
    /\ UNCHANGED <<dbVars, xvars>>
    /\ passes' = IF burst THEN Append(passes, lat[w]) ELSE passes
    /\ \/ /\ Goto(w, "cleanup_read")
          /\ lastPassAt' = nhooks
          /\ Log(w, "Debounced job completed")
          /\ UNCHANGED err
       \/ /\ \E e \in {"db", "other"} : Raise(w, e)
          /\ UNCHANGED <<lastPassAt, logs>>
    /\ UNCHANGED <<marker, lock, nhooks, lat, cur, slept, hookDuring, tailHook,
                   burst>>

\* worker.py:226-229, 244-257  process_transcript cannot read the transcript
\* (the file does not exist, or open / read raises IOError): it logs the
\* error and returns [], and process_session goes on as after any pass
\* (lines 608-620: nothing to notify, log, commit, close).
ProcessTranscriptUnread(w) ==
    /\ pc[w] = "process_transcript"
    /\ unread' = unread \cup {w}
    /\ passes' = IF burst THEN Append(passes, lat[w]) ELSE passes
    /\ Goto(w, "cleanup_read")
    /\ lastPassAt' = nhooks
    /\ Log(w, "Debounced job completed")
    /\ UNCHANGED <<marker, lock, nhooks, lat, cur, slept, err, hookDuring,
                   tailHook, burst>>
    /\ UNCHANGED <<dbVars, svars, cvars, fvars, runs, conn>>

\* worker.py:606-620  the pass returns; notify, log, conn.commit()
ProcessTranscriptCommit(w) ==
    /\ pc[w] = "process_transcript"
    /\ conn' = [conn EXCEPT ![w] = "committed"]
    /\ passes' = IF burst THEN Append(passes, lat[w]) ELSE passes
    /\ Goto(w, "cleanup_read")
    /\ lastPassAt' = nhooks
    /\ Log(w, "Debounced job completed")
    /\ UNCHANGED <<marker, lock, nhooks, lat, cur, slept, err, hookDuring,
                   tailHook, burst>>
    /\ UNCHANGED <<dbVars, svars, cvars, fvars, unread, runs>>

\* worker.py:322-503  the pass raises after statements of it have run: an
\* exception of the driver, or another one (pass 4 and the custom-title loop
\* have no handler: entry.get of a line that is not a JSON object,
\* message.get of a message that is not one)
ProcessTranscriptRaise(w) ==
    /\ pc[w] = "process_transcript"
    /\ conn' = [conn EXCEPT ![w] = "dirty"]
    /\ passes' = IF burst THEN Append(passes, lat[w]) ELSE passes
    /\ \E e \in {"db", "other"} : Raise(w, e)
    /\ UNCHANGED <<marker, lock, nhooks, lat, cur, slept, logs, lastPassAt,
                   hookDuring, tailHook, burst>>
    /\ UNCHANGED <<dbVars, svars, cvars, fvars, unread, runs>>

\* worker.py:640-649  the handler, with what it does to the transaction:
\* log(...) and conn.commit() commit whatever the connection holds (nothing
\* rolls it back); after an exception of the driver the log call raises and
\* the connection is dropped with its transaction.
WorkerErrorCommit(w) ==
    /\ pc[w] = "worker_error"
    /\ IF err[w] = "db"
       THEN UNCHANGED logs /\ conn' = [conn EXCEPT ![w] = "closed"]
       ELSE /\ Log(w, "Worker error")
            /\ conn' = [conn EXCEPT ![w] =
                           IF @ = "dirty" THEN "committed" ELSE "closed"]
    /\ Exit(w, "failed")
    /\ err' = [err EXCEPT ![w] = "none"]
    /\ UNCHANGED <<marker, lock, nhooks, slept, lastPassAt, passes, burst>>
    /\ UNCHANGED <<dbVars, svars, cvars, fvars, unread, runs>>

\* worker.py:624  current_marker = json.loads(marker_file.read_text())
\* (FileNotFoundError: pass)
CleanupRead(w) ==
    /\ pc[w] = "cleanup_read"
    /\ UNCHANGED <<dbVars, xvars>>
    /\ IF marker = NoMarker
       THEN Goto(w, "release") /\ UNCHANGED cur
       ELSE Goto(w, "cleanup_decide") /\ cur' = [cur EXCEPT ![w] = marker.latest]
    /\ UNCHANGED <<marker, lock, nhooks, lat, slept, err, logs,
                   lastPassAt, passes, burst, hookDuring, tailHook>>

\* (mutant of marker_unchanged: compares with the worker's own timestamp)
marker_unchanged_own(w) == cur[w] = w

\* worker.py:625  current_marker.get('latest') == latest_timestamp
marker_unchanged(w) == cur[w] = lat[w]

\* worker.py:625-632  unlink the marker when no new event came in
\* (FileNotFoundError: pass), else leave it
CleanupDecide(w) ==
    /\ pc[w] = "cleanup_decide"
    /\ UNCHANGED <<dbVars, xvars>>
    /\ marker' = IF marker_unchanged(w) THEN NoMarker ELSE marker
    /\ Goto(w, "release")
    /\ UNCHANGED <<lock, nhooks, lat, cur, slept, err, logs,
                   lastPassAt, passes, burst, hookDuring, tailHook>>

\* (mutant of Release: the lock is released on the normal paths only, as
\* without the finally clause)
Release_NoFinally(w) ==
    /\ pc[w] = "release"
    /\ UNCHANGED <<dbVars, xvars>>
    /\ lock' = IF err[w] = "none" THEN NoLock ELSE lock
    /\ IF err[w] = "none"
       THEN Exit(w, "done")
       ELSE Goto(w, "worker_error") /\ UNCHANGED <<lat, cur, hookDuring, tailHook>>
    /\ UNCHANGED <<marker, nhooks, slept, err, logs, lastPassAt, passes, burst>>

\* worker.py:633-638  finally: lock_file.unlink()  (FileNotFoundError: pass);
\* the function then returns, or the exception reaches the handler.
Release(w) ==
    /\ pc[w] = "release"
    /\ UNCHANGED <<dbVars, xvars>>
    /\ lock' = NoLock
    /\ IF err[w] = "none"
       THEN Exit(w, "done")
       ELSE Goto(w, "worker_error") /\ UNCHANGED <<lat, cur, hookDuring, tailHook>>
    /\ UNCHANGED <<marker, nhooks, slept, err, logs, lastPassAt, passes, burst>>

\* worker.py:640-649  log "Worker error" and commit, then raise
\* RuntimeError("Worker failed").  An exception of the logging itself is
\* swallowed (lines 647-648) and no record is written: this is what happens
\* when the propagated exception came from the database driver, since the
\* connection (db.py:24, autocommit = False) is never rolled back and its
\* aborted transaction refuses the INSERT of db.log (db.py:59-63).
WorkerError(w) ==
    /\ pc[w] = "worker_error"
    /\ UNCHANGED <<dbVars, xvars>>
    /\ IF err[w] = "db" THEN UNCHANGED logs ELSE Log(w, "Worker error")
    /\ Exit(w, "failed")
    /\ err' = [err EXCEPT ![w] = "none"]
    /\ UNCHANGED <<marker, lock, nhooks, slept, lastPassAt, passes, burst>>

WorkerStep(w) ==
    \/ DebounceSleep(w)
    \/ ReadMarker(w)
    \/ LockExists(w)
    \/ LockRead(w)
    \/ LockUnlink(w)
    \/ LockSleep(w)
    \/ LockWrite(w)
    \/ RecheckMarker(w)
    \/ GetSession(w)
    \/ ProcessTranscriptCall(w)
    \/ CleanupRead(w)
    \/ CleanupDecide(w)
    \/ Release(w)
    \/ WorkerError(w)

\* ======================================================================
\* The database layer (db.py)
\* ======================================================================
\* SQL NULL / Python None, for columns and values that are strings otherwise.
NULL == "NULL"
Sessions == {"s1", "s2"}
NoSession == [project_id |-> 0, status |-> NULL, transcript_path |-> NULL,
              name |-> NULL]
NoTools == [tool_use_id |-> "", name |-> "", status |-> "", output |-> "",
            todos |-> <<>>, state_key |-> ""]
\* sessions.name is at most NAME_MAX characters (db.py:135, 144: name[:200])
NAME_MAX == 200

\* Python  s[:n]
Prefix(s, n) == IF Len(s) <= n THEN s ELSE SubSeq(s, 1, n)

\* Python  sep.join(strs)
RECURSIVE join(_, _)
join(strs, sep) ==
    IF strs = <<>> THEN ""
    ELSE IF Len(strs) = 1 THEN strs[1]
    ELSE strs[1] \o sep \o join(Tail(strs), sep)

\* Python's order of the strings that occur as todo contents in the model.
StrOrder == <<"a", "b">>
StrRank(x) == CHOOSE i \in DOMAIN StrOrder : StrOrder[i] = x
RECURSIVE insert_sorted(_, _)
insert_sorted(x, strs) ==
    IF strs = <<>> THEN <<x>>
    ELSE IF StrRank(x) <= StrRank(strs[1]) THEN <<x>> \o strs
    ELSE <<strs[1]>> \o insert_sorted(x, Tail(strs))
\* Python  sorted(strs)
RECURSIVE sorted(_)
sorted(strs) ==
    IF strs = <<>> THEN <<>> ELSE insert_sorted(strs[1], sorted(Tail(strs)))

\* hashlib.md5(x.encode()).hexdigest(): taken as collision-free, and never
\* the empty string.
md5(x) == "md5(" \o x \o ")"

\* (mutant of compute_todo_hash: the contents are joined in list order)
compute_todo_hash_unsorted(session_id, todos) ==
    LET contents == [i \in DOMAIN todos |-> todos[i].content]
    IN  md5(session_id \o ":" \o join(contents, "|"))

\* db.py:266-277
compute_todo_hash(session_id, todos) ==
    LET contents == sorted([i \in DOMAIN todos |-> todos[i].content])
    IN  md5(session_id \o ":" \o join(contents, "|"))

\* db.py:280-291
compute_state_key(todos) ==
    LET statuses == [i \in DOMAIN todos |-> todos[i].status]
    IN  md5(join(statuses, "|"))

\* db.py:237-241  (over a messages table m)
message_exists(m, uuid) == \E r \in m : r.uuid = uuid

\* db.py:219-226  ORDER BY id DESC LIMIT 1; a row, or none: the empty set
get_latest_prompt(session_id) ==
    LET ps == {p \in prompts : p.session_id = session_id}
    IN  {p \in ps : \A q \in ps : q.id <= p.id}

\* db.py:157-166  the path of the session's project, or NULL
get_session_project_path(session_id) ==
    LET ps == {p \in projects : sessions[session_id] # NoSession
                                /\ p.id = sessions[session_id].project_id}
    IN  IF ps = {} THEN NULL ELSE (CHOOSE p \in ps : TRUE).path


\* db.py:138-144  (returns the sessions table after the UPDATE)
update_session_name_if_empty(ss, session_id, name) ==
    IF ss[session_id] # NoSession /\ ss[session_id].name \in {NULL, ""}
    THEN [ss EXCEPT ![session_id].name = Prefix(name, NAME_MAX)]
    ELSE ss

\* An INSERT INTO messages inside the transaction d = [m, next, raised]: the
\* row gets the next id; a UNIQUE violation raises and aborts the
\* transaction.
insert_message(d, row) ==
    IF d.raised THEN d
    ELSE IF uuidUnique /\ message_exists(d.m, row.uuid)
    THEN [d EXCEPT !.raised = TRUE]
    ELSE [d EXCEPT !.m = d.m \cup {[row EXCEPT !.id = d.next]},
                   !.next = d.next + 1]

\* db.py:244-263
create_message(d, prompt_id, uuid, body, is_user, tools) ==
    insert_message(d, [id |-> 0, prompt_id |-> prompt_id, uuid |-> uuid,
                       body |-> body, is_user |-> is_user, tools |-> tools,
                       todo_id |-> NULL])

\* (mutant of upsert_todo_message: a changed state is stored as a new row)
upsert_todo_message_insert(d, session_id, prompt_id, uuid, tools, todos, state_key) ==
    LET todo_hash == compute_todo_hash(session_id, todos)
        ex == {r \in d.m : r.todo_id = todo_hash}
        existing == CHOOSE r \in ex : \A q \in ex : r.id <= q.id
        unchanged == ex # {} /\ existing.tools.state_key = state_key
        ins == insert_message(d, [id |-> 0, prompt_id |-> prompt_id,
                   uuid |-> uuid, body |-> NULL, is_user |-> FALSE,
                   tools |-> tools, todo_id |-> todo_hash])
    IN  IF unchanged
        THEN [d |-> d, id |-> existing.id, is_new |-> FALSE, state_changed |-> FALSE]
        ELSE [d |-> ins, id |-> d.next, is_new |-> TRUE, state_changed |-> FALSE]

\* db.py:294-349  returns the transaction and (message_id, is_new,
\* state_changed)
upsert_todo_message(d, session_id, prompt_id, uuid, tools, todos, state_key) ==
    LET todo_hash == compute_todo_hash(session_id, todos)
        ex == {r \in d.m : r.todo_id = todo_hash}
        \* cur.fetchone()
        existing == CHOOSE r \in ex : \A q \in ex : r.id <= q.id
        old_state_key == existing.tools.state_key
        state_changed == old_state_key # "" /\ old_state_key # state_key
        ins == insert_message(d, [id |-> 0, prompt_id |-> prompt_id,
                   uuid |-> uuid, body |-> NULL, is_user |-> FALSE,
                   tools |-> tools, todo_id |-> todo_hash])
    IN  IF ex # {}
        THEN [d |-> IF state_changed
                    THEN [d EXCEPT !.m = (d.m \ {existing})
                                   \cup {[existing EXCEPT !.tools = tools]}]
                    ELSE d,
              id |-> existing.id, is_new |-> FALSE,
              state_changed |-> state_changed]
        ELSE [d |-> ins, id |-> d.next, is_new |-> TRUE, state_changed |-> FALSE]

\* ======================================================================
\* The transcript pass (worker.py process_transcript)
\* ======================================================================
\* A transcript line, reduced to what the pass reads: its type, uuid, the
\* text of its first content item ("": none), its tool_use item
\* (tool_use_id "": none) or, on a user line, its tool_result item.
Todo(c, st) == [content |-> c, status |-> st]
NoResult == [content |-> "", is_error |-> FALSE]
TextEntry(type, uuid, text) ==
    [type |-> type, uuid |-> uuid, text |-> text,
     tool_use_id |-> "", name |-> "", todos |-> <<>>, result |-> NoResult]
ToolUseEntry(uuid, id, name, todos) ==
    [type |-> "assistant", uuid |-> uuid, text |-> "",
     tool_use_id |-> id, name |-> name, todos |-> todos, result |-> NoResult]
ToolResultEntry(uuid, id, content, is_error) ==
    [type |-> "user", uuid |-> uuid, text |-> "",
     tool_use_id |-> id, name |-> "", todos |-> <<>>,
     result |-> [content |-> content, is_error |-> is_error]]

\* worker.py:259-281  pass 1: the dict tool_uses, as the sequence of its
\* values in key-insertion order (a repeated id keeps its place and takes
\* the later value)
RECURSIVE collect_tool_uses(_, _)
collect_tool_uses(entries, acc) ==
    IF entries = <<>> THEN acc
    ELSE LET e == Head(entries) IN
         IF e.type = "assistant" /\ e.tool_use_id # ""
         THEN IF \E i \in DOMAIN acc : acc[i].tool_use_id = e.tool_use_id
              THEN collect_tool_uses(Tail(entries),
                       [i \in DOMAIN acc |->
                           IF acc[i].tool_use_id = e.tool_use_id THEN e ELSE acc[i]])
              ELSE collect_tool_uses(Tail(entries), Append(acc, e))
         ELSE collect_tool_uses(Tail(entries), acc)

\* worker.py:283-306  pass 2: the dict tool_results; the result of a tool
\* use is that of the last user line with a tool_result of its id, and {}
\* (line 324: every field at its default) when there is none
tool_result(entries, tool_use_id) ==
    LET rs == {i \in DOMAIN entries :
                  /\ entries[i].type = "user"
                  /\ entries[i].tool_use_id = tool_use_id}
    IN  IF rs = {} \/ tool_use_id = "" THEN NoResult
        ELSE entries[CHOOSE i \in rs : \A j \in rs : j <= i].result

\* worker.py:322-325  each tool use of pass 1 with its result of pass 2
with_results(tus, entries) ==
    [i \in DOMAIN tus |->
        [tus[i] EXCEPT !.result = tool_result(entries, tus[i].tool_use_id)]]

\* (mutant of final_todo_ids: every TodoWrite is taken as final)
final_todo_ids_all(session_id, tus) ==
    {tus[i].tool_use_id : i \in {j \in DOMAIN tus : tus[j].name = "TodoWrite"}}

\* worker.py:308-319  pass 2.5: the last TodoWrite of each todo_hash
final_todo_ids(session_id, tus) ==
    {tus[i].tool_use_id : i \in
        {i \in DOMAIN tus :
            /\ tus[i].name = "TodoWrite"
            /\ ~\E j \in DOMAIN tus :
                  /\ j > i
                  /\ tus[j].name = "TodoWrite"
                  /\ compute_todo_hash(session_id, tus[j].todos)
                       = compute_todo_hash(session_id, tus[i].todos)}}

\* worker.py:72-217  the tool JSON, reduced to the fields the pass and the
\* store read; None (NoTools) for a tool use without a name
build_tool_json(tool_use) ==
    IF tool_use.name = "" THEN NoTools
    ELSE [tool_use_id |-> tool_use.tool_use_id,
          name |-> tool_use.name,
          status |-> IF tool_use.result.is_error THEN "error" ELSE "success",
          output |-> tool_use.result.content,
          todos |-> IF tool_use.name = "TodoWrite" THEN tool_use.todos ELSE <<>>,
          state_key |-> IF tool_use.name = "TodoWrite"
                        THEN compute_state_key(tool_use.todos) ELSE ""]

\* An element of new_messages, reduced to the fields read afterwards.
NewMessage(id, uuid, is_user, body) ==
    [id |-> id, uuid |-> uuid, is_user |-> is_user, body |-> body]

\* worker.py:321-398  pass 3 over the tool uses tus; st = [d, new] is the
\* transaction and new_messages.  An exception of the store is caught at
\* line 396, but the log call of the handler raises in turn on the aborted
\* transaction: the pass ends by raising.
RECURSIVE process_tool_calls(_, _, _, _, _)
process_tool_calls(tus, finals, session_id, prompt_id, st) ==
    IF tus = <<>> \/ st.d.raised THEN st
    ELSE
      LET tool_use == Head(tus)
          tool_use_id == tool_use.tool_use_id
          tool_json == build_tool_json(tool_use)
          up == upsert_todo_message(st.d, session_id, prompt_id, tool_use_id,
                    tool_json, tool_use.todos, tool_json.state_key)
          cr == create_message(st.d, prompt_id, tool_use_id, NULL, FALSE, tool_json)
          next_st ==
            IF tool_json = NoTools THEN st
            ELSE IF tool_use.name = "TodoWrite"
            THEN IF tool_use_id \notin finals THEN st
                 ELSE [d |-> up.d,
                       new |-> IF ~up.d.raised /\ (up.is_new \/ up.state_changed)
                               THEN Append(st.new,
                                        NewMessage(up.id, tool_use_id, FALSE, NULL))
                               ELSE st.new]
            ELSE IF message_exists(st.d.m, tool_use_id) THEN st
                 ELSE [d |-> cr,
                       new |-> IF cr.raised THEN st.new
                               ELSE Append(st.new,
                                        NewMessage(st.d.next, tool_use_id, FALSE, NULL))]
      IN  process_tool_calls(Tail(tus), finals, session_id, prompt_id, next_st)

\* Python  sub in str
contains(str, sub) ==
    \E i \in 1..(Len(str) - Len(sub) + 1) : SubSeq(str, i, i + Len(sub) - 1) = sub

\* (mutant of is_local_command: only the output marker is looked for)
is_local_command_stdout(text) == contains(text, "<local-command-stdout>")

\* worker.py:447  the text of a synthetic (local command) user entry
is_local_command(text) ==
    \/ contains(text, "<local-command-stdout>")
    \/ contains(text, "<local-command-caveat>")
    \/ contains(text, "<command-name>")

\* worker.py:400-483  pass 4 over the entries: the text messages
RECURSIVE process_text_messages(_, _, _)
process_text_messages(entries, prompt_id, st) ==
    IF entries = <<>> \/ st.d.raised THEN st
    ELSE
      LET entry == Head(entries)
          uuid == entry.uuid
          body == entry.text
          is_user == entry.type = "user"
          cr == create_message(st.d, prompt_id, uuid, body, is_user, NoTools)
          next_st ==
            IF uuid = "" THEN st
            ELSE IF message_exists(st.d.m, uuid) THEN st
            ELSE IF body = "" THEN st
            ELSE IF is_user /\ is_local_command(body) THEN st
            ELSE [d |-> cr,
                  new |-> IF cr.raised THEN st.new
                          ELSE Append(st.new,
                                   NewMessage(st.d.next, uuid, is_user, body))]
      IN  process_text_messages(Tail(entries), prompt_id, next_st)

\* worker.py:493-500  the body of the first new user message, or NULL
first_user_body(new) ==
    LET us == {i \in DOMAIN new : new[i].is_user /\ new[i].body \notin {NULL, ""}}
    IN  IF us = {} THEN NULL
        ELSE new[CHOOSE i \in us : \A j \in us : i <= j].body

\* worker.py:485-489  the customTitle of the last custom-title entry that
\* has one, or NULL
CustomTitleEntry(title) == TextEntry("custom-title", "", title)
custom_title(entries) ==
    LET cs == {i \in DOMAIN entries :
                 entries[i].type = "custom-title" /\ entries[i].text # ""}
    IN  IF cs = {} THEN NULL
        ELSE entries[CHOOSE i \in cs : \A j \in cs : j <= i].text

\* worker.py:490-503  the session name after a pass (returns the sessions
\* table): the custom title as it is, else the first new user message
name_session(ss, session_id, title, new) ==
    LET name == first_user_body(new)
    IN  IF ss[session_id] = NoSession THEN ss
        ELSE IF title # NULL THEN [ss EXCEPT ![session_id].name = title]
        ELSE IF name = NULL THEN ss
        ELSE update_session_name_if_empty(ss, session_id, name)

\* db.py:352-360  the latest user message of a prompt: a row, or none
get_latest_user_message(m, prompt_id) ==
    LET us == {r \in m : r.prompt_id = prompt_id /\ r.is_user}
    IN  {r \in us : \A q \in us : q.id <= r.id}

\* worker.py:505-515, db.py:229-232  (returns the prompts table)
promote_prompt_text(m, session_id) ==
    LET lp == get_latest_prompt(session_id)
        p == CHOOSE x \in lp : TRUE
        um == get_latest_user_message(m, p.id)
    IN  IF lp # {} /\ p.prompt \in {NULL, ""} /\ um # {}
        THEN (prompts \ {p})
             \cup {[p EXCEPT !.prompt = (CHOOSE r \in um : TRUE).body]}
        ELSE prompts

\* The outcome of a pass: the session, whether it raised, the ids of
\* new_messages (its change list, sent as 'session_update'), and whether the
\* transcript was the one of the session's previous committed pass.
PassOutcome(session_id, raised, new, repeat) ==
    [session_id |-> session_id, raised |-> raised,
     changes |-> [i \in DOMAIN new |-> new[i].id], repeat |-> repeat]
NoPass == PassOutcome("", FALSE, <<>>, FALSE)

\* worker.py:604-620 and 220-517  one pass of a worker over the transcript
\* of session_id, as one transaction: get_session, process_transcript,
\* notify, commit.  A pass that raises commits nothing (the connection is
\* dropped with its aborted transaction).
process_transcript(session_id) ==
    LET session == sessions[session_id]
        lp == get_latest_prompt(session_id)
        prompt_id == (CHOOSE x \in lp : TRUE).id
        entries == transcript[session_id]
        tus == with_results(collect_tool_uses(entries, <<>>), entries)
        st0 == [d |-> [m |-> messages, next |-> serial.messages, raised |-> FALSE],
                new |-> <<>>]
        st3 == process_tool_calls(tus, final_todo_ids(session_id, tus),
                                  session_id, prompt_id, st0)
        repeat == passed[session_id] = Len(entries)
    IN
    /\ session # NoSession /\ session.transcript_path \notin {NULL, ""}
    /\ lp # {}
    /\ \E st4 \in {process_text_messages(entries, prompt_id, st3)} :
         IF st4.d.raised
         THEN /\ ret' = PassOutcome(session_id, TRUE, <<>>, repeat)
              /\ UNCHANGED <<messages, serial, sessions, prompts, passed>>
         ELSE /\ messages' = st4.d.m
              /\ serial' = [serial EXCEPT !.messages = st4.d.next]
              /\ sessions' = name_session(sessions, session_id,
                                          custom_title(entries), st4.new)
              /\ prompts' = promote_prompt_text(st4.d.m, session_id)
              /\ passed' = [passed EXCEPT ![session_id] = Len(entries)]
              /\ ret' = PassOutcome(session_id, FALSE, st4.new, repeat)
    /\ UNCHANGED <<uuidUnique, projects, hooks, transcript, spawned, sweepers,
                   firstProject, lastEvent>>
    /\ UNCHANGED <<wvars, xvars>>

\* ---- passes of several workers at a time (worker.py:606-620, each on a
\* connection of its own: db.py:21-25, autocommit off, READ COMMITTED)
MaxPasses == 2
Passes == 1..MaxPasses
NoRun == [pc |-> "idle", session_id |-> "", prompt_id |-> 0, todo |-> <<>>,
          title |-> NULL, rows |-> {}, new |-> <<>>]
Running == {"check", "insert", "finish"}

\* What pass 3 and pass 4 go through, in their order: the tool uses that are
\* stored with create_message (lines 322-328, 370-383), then the entries
\* with a uuid and a body (lines 401-469).
IsRegularTool(tu) == tu.name \notin {"", "TodoWrite"}
IsTextItem(e) ==
    e.uuid # "" /\ e.text # "" /\ ~(e.type = "user" /\ is_local_command(e.text))
pass_items(entries) ==
    LET tus == SelectSeq(with_results(collect_tool_uses(entries, <<>>), entries),
                         IsRegularTool)
        texts == SelectSeq(entries, IsTextItem)
    IN  [i \in DOMAIN tus |->
            [uuid |-> tus[i].tool_use_id, body |-> NULL, is_user |-> FALSE,
             tools |-> build_tool_json(tus[i])]]
        \o [i \in DOMAIN texts |->
               [uuid |-> texts[i].uuid, body |-> texts[i].text,
                is_user |-> texts[i].type = "user", tools |-> NoTools]]

Advance(run) ==
    [run EXCEPT !.todo = Tail(@),
                !.pc = IF Tail(run.todo) = <<>> THEN "finish" ELSE "check"]

\* worker.py:604-606, 222-257  get_session, the latest prompt, the entries
StartPass(p, session_id) ==
    LET lp == get_latest_prompt(session_id)
        todo == pass_items(transcript[session_id])
    IN
    /\ runs[p].pc = "idle"
    /\ sessions[session_id] # NoSession
    /\ sessions[session_id].transcript_path \notin {NULL, ""}
    /\ lp # {}
    /\ runs' = [runs EXCEPT ![p] =
                  [pc |-> IF todo = <<>> THEN "finish" ELSE "check",
                   session_id |-> session_id,
                   prompt_id |-> (CHOOSE x \in lp : TRUE).id,
                   todo |-> todo,
                   title |-> custom_title(transcript[session_id]),
                   rows |-> {}, new |-> <<>>]]
    /\ UNCHANGED <<wvars, dbVars, svars, cvars, fvars, unread, conn>>

\* worker.py:372, 411  message_exists: the committed rows and the rows of
\* the pass's own transaction
CheckItem(p) ==
    /\ runs[p].pc = "check"
    /\ runs' = [runs EXCEPT ![p] =
                  IF message_exists(messages \cup runs[p].rows,
                                    Head(runs[p].todo).uuid)
                  THEN Advance(runs[p])
                  ELSE [runs[p] EXCEPT !.pc = "insert"]]
    /\ UNCHANGED <<wvars, dbVars, svars, cvars, fvars, unread, conn>>

\* worker.py:375-395, 470-483  create_message and new_messages.append.  The
\* INSERT waits while another open transaction holds a row with the uuid.
\* When the uuid has been committed since the test, the INSERT raises
\* UniqueViolation: in pass 4 nothing catches it; in pass 3 the handler of
\* line 396 does, and its log call raises on the aborted transaction.  The
\* pass ends, process_session's handler (lines 640-649) raises RuntimeError
\* and the connection is dropped with its transaction.
InsertItem(p) ==
    LET run == runs[p]
        item == Head(run.todo)
        cr == create_message([m |-> messages \cup run.rows,
                              next |-> serial.messages, raised |-> FALSE],
                             run.prompt_id, item.uuid, item.body,
                             item.is_user, item.tools)
    IN
    /\ run.pc = "insert"
    /\ \A q \in Passes \ {p} :
          runs[q].pc \in Running => ~message_exists(runs[q].rows, item.uuid)
    /\ IF cr.raised
       THEN /\ runs' = [runs EXCEPT ![p] = [run EXCEPT !.pc = "failed",
                                                       !.rows = {},
                                                       !.new = <<>>]]
            /\ ret' = PassOutcome(run.session_id, TRUE, <<>>, FALSE)
            /\ UNCHANGED serial
       ELSE /\ runs' = [runs EXCEPT ![p] =
                          Advance([run EXCEPT
                             !.rows = cr.m \ messages,
                             !.new = Append(@, NewMessage(serial.messages,
                                        item.uuid, item.is_user, item.body))])]
            /\ serial' = [serial EXCEPT !.messages = cr.next]
            /\ UNCHANGED ret
    /\ UNCHANGED <<uuidUnique, projects, sessions, prompts, hooks, messages,
                   transcript, spawned, sweepers, passed, firstProject,
                   lastEvent>>
    /\ UNCHANGED <<wvars, svars, cvars, fvars, unread, conn>>

\* worker.py:485-517, 608-620  the session name, the prompt text, notify
\* session_update, commit
CommitPass(p) ==
    LET run == runs[p]
    IN
    /\ run.pc = "finish"
    /\ messages' = messages \cup run.rows
    /\ sessions' = name_session(sessions, run.session_id, run.title, run.new)
    /\ prompts' = promote_prompt_text(messages \cup run.rows, run.session_id)
    /\ passed' = [passed EXCEPT ![run.session_id] = Len(transcript[run.session_id])]
    /\ ret' = PassOutcome(run.session_id, FALSE, run.new, FALSE)
    /\ runs' = [runs EXCEPT ![p] = [run EXCEPT !.pc = "committed"]]
    /\ UNCHANGED <<uuidUnique, serial, projects, hooks, transcript, spawned,
                   sweepers, firstProject, lastEvent>>
    /\ UNCHANGED <<wvars, svars, cvars, fvars, unread, conn>>

\* ---- the transcript files
MaxEntries == 3
t_a_pending == <<Todo("a", "pending")>>
t_a_completed == <<Todo("a", "completed")>>
t_ab == <<Todo("a", "pending"), Todo("b", "completed")>>
t_ba == <<Todo("b", "completed"), Todo("a", "pending")>>
t_ba_swapped == <<Todo("b", "pending"), Todo("a", "completed")>>
\* The lines the assistant may append to a transcript.
EntryPool ==
    { TextEntry("user", "u1", "hello"),
      TextEntry("user", "u1", "edited"),
      TextEntry("assistant", "u2", ""),
      ToolUseEntry("u3", "toolu_1", "TodoWrite", t_a_pending),
      ToolUseEntry("u4", "toolu_2", "TodoWrite", t_a_completed),
      ToolUseEntry("u5", "toolu_3", "TodoWrite", t_ab),
      ToolUseEntry("u6", "toolu_4", "TodoWrite", t_ba),
      ToolUseEntry("u7", "toolu_5", "TodoWrite", t_ba_swapped),
      ToolUseEntry("u8", "toolu_6", "Bash", <<>>) }

TotalEntries == Len(transcript["s1"]) + Len(transcript["s2"])

\* The assistant appends a line to the transcript of a session (a resumed
\* session's transcript repeats lines of the session it continues).
AppendEntry(session_id, e) ==
    /\ TotalEntries < MaxEntries
    /\ transcript' = [transcript EXCEPT ![session_id] = Append(@, e)]
    /\ UNCHANGED <<uuidUnique, serial, projects, sessions, prompts, hooks,
                   messages, spawned, sweepers, passed, ret, firstProject,
                   lastEvent>>
    /\ UNCHANGED <<wvars, xvars>>

\* ======================================================================
\* The daemon (monitor_daemon.py) and the sweeper (cleanup_worker.py)
\* ======================================================================
\* db.py:79-87  the id upsert_project returns, and the table it leaves
upsert_project_id(path) ==
    LET rows == {p \in projects : p.path = path}
    IN  IF rows # {} THEN (CHOOSE p \in rows : \A q \in rows : p.id <= q.id).id
        ELSE serial.projects
upsert_project(path) ==
    IF \E p \in projects : p.path = path THEN projects
    ELSE projects \cup {[id |-> serial.projects, path |-> path]}

\* (mutant of upsert_session: the conflict branch also takes the project)
upsert_session_reassign(ss, session_id, project_id, status, transcript_path) ==
    IF ss[session_id] = NoSession
    THEN [ss EXCEPT ![session_id] =
             [project_id |-> project_id, status |-> status,
              transcript_path |-> transcript_path, name |-> NULL]]
    ELSE [ss EXCEPT ![session_id].status = status,
                    ![session_id].project_id = project_id,
                    ![session_id].transcript_path = transcript_path]

\* db.py:113-124  INSERT ... ON CONFLICT(session_id) DO UPDATE SET status,
\* transcript_path (terminal_id and shell_id are not modelled)
upsert_session(ss, session_id, project_id, status, transcript_path) ==
    IF ss[session_id] = NoSession
    THEN [ss EXCEPT ![session_id] =
             [project_id |-> project_id, status |-> status,
              transcript_path |-> transcript_path, name |-> NULL]]
    ELSE [ss EXCEPT ![session_id].status = status,
                    ![session_id].transcript_path = transcript_path]

\* db.py:127-135  name = COALESCE(name[:200], sessions.name)
\* (message_count is not modelled)
update_session_metadata(ss, session_id, name) ==
    IF ss[session_id] # NoSession /\ name \notin {NULL, ""}
    THEN [ss EXCEPT ![session_id].name = Prefix(name, NAME_MAX)]
    ELSE ss

\* (mutant of get_stale_session_ids: the project is not looked at)
get_stale_session_ids_any_project(ss, project_id, current_session_id) ==
    {x \in Sessions : /\ ss[x] # NoSession
                      /\ x # current_session_id
                      /\ ss[x].status = "started"}

\* db.py:169-179
get_stale_session_ids(ss, project_id, current_session_id) ==
    {x \in Sessions : /\ ss[x] # NoSession
                      /\ ss[x].project_id = project_id
                      /\ x # current_session_id
                      /\ ss[x].status = "started"}

\* db.py:182-203  the tables after the cascade
cascade_messages(m, ps, ids) ==
    {r \in m : ~\E q \in ps : q.id = r.prompt_id /\ q.session_id \in ids}
cascade_prompts(ps, ids) == {q \in ps : q.session_id \notin ids}
cascade_hooks(hs, ids) ==
    SelectSeq(hs, LAMBDA h : h.session_id \notin ids)
cascade_sessions(ss, ids) ==
    [x \in Sessions |-> IF x \in ids THEN NoSession ELSE ss[x]]

\* db.py:208-216
create_prompt(ps, id, session_id, prompt_text) ==
    ps \cup {[id |-> id, session_id |-> session_id, prompt |-> prompt_text]}

\* Python  s.replace('-', '/')
RECURSIVE replace_dashes(_)
replace_dashes(str) ==
    IF str = "" THEN ""
    ELSE (IF SubSeq(str, 1, 1) = "-" THEN "/" ELSE SubSeq(str, 1, 1))
         \o replace_dashes(SubSeq(str, 2, Len(str)))

\* The components of a path between its '/' separators.
RECURSIVE path_parts(_, _, _)
path_parts(str, part, acc) ==
    LET done == IF part = "" THEN acc ELSE Append(acc, part) IN
    IF str = "" THEN done
    ELSE IF SubSeq(str, 1, 1) = "/"
    THEN path_parts(SubSeq(str, 2, Len(str)), "", done)
    ELSE path_parts(SubSeq(str, 2, Len(str)), part \o SubSeq(str, 1, 1), acc)

\* monitor_daemon.py:161-172  Path(transcript_path).parent.name with every
\* '-' replaced by '/'
derive_project_path(transcript_path) ==
    IF transcript_path = "" THEN ""
    ELSE LET parts == path_parts(transcript_path, "", <<>>)
         IN  IF Len(parts) < 2 THEN ""
             ELSE replace_dashes(parts[Len(parts) - 1])

\* monitor_daemon.py:182  derive_project_path(transcript_path) or cwd
project_path_of(event) ==
    IF derive_project_path(event.transcript_path) # ""
    THEN derive_project_path(event.transcript_path)
    ELSE event.cwd

\* (mutant of status_of: Stop is taken for the end of the session)
status_of_stop_ends(hook_type, notification_type) ==
    IF hook_type = "SessionStart" THEN "started"
    ELSE IF hook_type \in {"UserPromptSubmit", "PreToolUse", "PostToolUse"}
    THEN "active"
    ELSE IF hook_type \in {"Stop", "SessionEnd"} THEN "ended"
    ELSE IF hook_type = "Notification"
    THEN IF notification_type = "permission_prompt" THEN "permission_needed"
         ELSE IF notification_type = "idle_prompt" THEN "idle"
         ELSE NULL
    ELSE NULL

\* monitor_daemon.py:190-205  the session status of a hook, or None
status_of(hook_type, notification_type) ==
    IF hook_type = "SessionStart" THEN "started"
    ELSE IF hook_type \in {"UserPromptSubmit", "PreToolUse", "PostToolUse"}
    THEN "active"
    ELSE IF hook_type = "Stop" THEN "done"
    ELSE IF hook_type = "SessionEnd" THEN "ended"
    ELSE IF hook_type = "Notification"
    THEN IF notification_type = "permission_prompt" THEN "permission_needed"
         ELSE IF notification_type = "idle_prompt" THEN "idle"
         ELSE NULL
    ELSE NULL

\* ---- hook events
MaxEvents == 3
HookKinds ==
    { <<"SessionStart", "">>, <<"UserPromptSubmit", "">>, <<"PreToolUse", "">>,
      <<"PostToolUse", "">>, <<"Stop", "">>, <<"SessionEnd", "">>,
      <<"Notification", "permission_prompt">>, <<"Notification", "idle_prompt">>,
      <<"Notification", "auth_success">>, <<"SubagentStop", "">> }
\* Where the assistant says it is: its transcript path (may be missing) and
\* its working directory.
Places ==
    { [transcript_path |-> "", cwd |-> "/a"],
      [transcript_path |-> "/c/-b/t.jsonl", cwd |-> "/b/x"] }
Events ==
    { [session_id |-> sid, hook_event_name |-> k[1], notification_type |-> k[2],
       transcript_path |-> pl.transcript_path, cwd |-> pl.cwd,
       prompt |-> IF k[1] = "UserPromptSubmit" THEN "fix it" ELSE ""] :
      sid \in Sessions, k \in HookKinds, pl \in Places }
NoEvent == [session_id |-> "", hook_event_name |-> "", notification_type |-> "",
            transcript_path |-> "", cwd |-> "", prompt |-> ""]
\* customTitle or firstPrompt of the session's entry in sessions-index.json
\* (NULL: no entry, or an entry with neither)
IndexNames == {NULL, "title"}

\* monitor_daemon.py:175-251  one hook event, processed in one transaction
\* and committed, then the post-commit starts of the two workers.
\* index_name is what get_session_index_entry finds on disk.
process_event(event, index_name) ==
    LET session_id == event.session_id
        transcript_path == event.transcript_path
        project_path == project_path_of(event)
        hook_type == event.hook_event_name
        \* save_hook (db.py:68-74); the payload column is not modelled
        hooks1 == Append(hooks, [session_id |-> session_id,
                                 hook_type |-> hook_type])
        status == status_of(hook_type, event.notification_type)
        project_id == upsert_project_id(project_path)
        ss1 == IF status # NULL
               THEN upsert_session(sessions, session_id, project_id, status,
                                   transcript_path)
               ELSE sessions
        \* clean_sessions (lines 115-120)
        stale == IF hook_type = "SessionStart"
                 THEN get_stale_session_ids(ss1, project_id, session_id)
                 ELSE {}
        ss2 == cascade_sessions(ss1, stale)
        ps2 == cascade_prompts(prompts, stale)
        ps3 == IF hook_type = "SessionStart"
               THEN create_prompt(ps2, serial.prompts, session_id, NULL)
               ELSE ps2
        \* update_session_from_index (lines 101-112)
        ss3 == IF hook_type \in {"SessionStart", "UserPromptSubmit"}
               THEN update_session_metadata(ss2, session_id, index_name)
               ELSE ss2
        ps4 == IF hook_type = "UserPromptSubmit"
               THEN create_prompt(ps3, serial.prompts, session_id, event.prompt)
               ELSE ps3
        ss4 == IF hook_type = "UserPromptSubmit"
               THEN update_session_name_if_empty(ss3, session_id, event.prompt)
               ELSE ss3
    IN
    /\ serial.hooks <= MaxEvents
    /\ hook_type \notin {"SessionStart", "UserPromptSubmit"} => index_name = NULL
    /\ lastEvent' = event
    /\ hooks' = cascade_hooks(hooks1, stale)
    /\ projects' = upsert_project(project_path)
    /\ sessions' = ss4
    /\ prompts' = ps4
    /\ messages' = cascade_messages(messages, prompts, stale)
    /\ serial' = [serial EXCEPT
                    !.hooks = @ + 1,
                    !.projects = IF projects' = projects THEN @ ELSE @ + 1,
                    !.prompts = IF hook_type \in {"SessionStart", "UserPromptSubmit"}
                                THEN @ + 1 ELSE @]
    /\ firstProject' = IF firstProject[session_id] = "" /\ status # NULL
                       THEN [firstProject EXCEPT ![session_id] = project_path]
                       ELSE firstProject
    \* post-commit (lines 245-251)
    /\ spawned' = [spawned EXCEPT ![session_id] = @ + 1]
    /\ sweepers' = IF hook_type # "SessionStart" THEN sweepers + 1 ELSE sweepers
    /\ UNCHANGED <<uuidUnique, transcript, passed, ret>>
    /\ UNCHANGED <<wvars, xvars>>

\* cleanup_worker.py:133-141  sessions 'started' or 'active' and not updated
\* for 10 minutes become 'ended'; old: the sessions not updated for that long
end_stale_sessions(ss, old) ==
    [x \in Sessions |->
        IF x \in old /\ ss[x] # NoSession /\ ss[x].status \in {"started", "active"}
        THEN [ss[x] EXCEPT !.status = "ended"]
        ELSE ss[x]]

\* (mutant of empty_sessions: the prompts are not counted)
empty_sessions_uncounted(ss, ps, m) ==
    {x \in Sessions :
        /\ ss[x] # NoSession
        /\ \A q \in ps : q.session_id = x => q.prompt = NULL
        /\ ~\E r \in m, q \in ps : q.session_id = x /\ r.prompt_id = q.id}

\* cleanup_worker.py:107-122  the sessions with at most one prompt, no prompt
\* text and no message
empty_sessions(ss, ps, m) ==
    {x \in Sessions :
        /\ ss[x] # NoSession
        /\ Cardinality({q \in ps : q.session_id = x}) <= 1
        /\ \A q \in ps : q.session_id = x => q.prompt = NULL
        /\ ~\E r \in m, q \in ps : q.session_id = x /\ r.prompt_id = q.id}

\* cleanup_worker.py:97-104
delete_orphan_projects(pr, ss) ==
    {p \in pr : \E x \in Sessions : ss[x] # NoSession /\ ss[x].project_id = p.id}

\* cleanup_worker.py:199-207, 164-185  one run of the sweeper, within three
\* days of the first hook: no row is old enough for the weekly part
\* (delete_old_messages, delete_old_logs_and_hooks, delete_old_session_data)
\* and no file for run_locks_cleanup.
run_cleanup(old) ==
    LET ss1 == end_stale_sessions(sessions, old)
        empty == empty_sessions(ss1, prompts, messages)
        ss2 == cascade_sessions(ss1, empty)
    IN
    /\ sweepers > 0
    \* (an old session of another status makes no difference)
    /\ \A x \in old : sessions[x] # NoSession
                       /\ sessions[x].status \in {"started", "active"}
    /\ sweepers' = sweepers - 1
    /\ sessions' = ss2
    \* delete_empty_sessions, lines 125-128: prompts without a session
    /\ prompts' = {q \in prompts : ss2[q.session_id] # NoSession}
    /\ projects' = delete_orphan_projects(projects, ss2)
    /\ UNCHANGED <<uuidUnique, serial, hooks, messages, transcript, spawned,
                   passed, ret, firstProject, lastEvent>>
    /\ UNCHANGED <<wvars, xvars>>

\* ---- the sweeper with its clock
\* cleanup_worker.py:139  INTERVAL '10 minutes'
STALE_MINUTES == 10
\* cleanup_worker.py:60  INTERVAL '7 days', in minutes
WEEK_MINUTES == 7 * 24 * 60
\* Minutes since a session's updated_at, as a sweeper run may find them.
Ages == {0, 7, 15, 2 * WEEK_MINUTES}
NoSweep == [age |-> [x \in Sessions |-> -1], recent |-> TRUE]

\* cleanup_worker.py:54-85  the sessions not updated for a week
aged_sessions(ss, age) ==
    {x \in Sessions : ss[x] # NoSession /\ age[x] > WEEK_MINUTES}

\* cleanup_worker.py:199-207, 164-185  one run of the sweeper at a time when
\* session x was last updated age[x] minutes ago, the messages old_messages
\* were created more than three days ago and the first old_hooks hook
\* records more than a week ago; recent: has_recent_cleanup(conn, 'data',
\* '7 days') (lines 173-176).  touch: whether the schema renews updated_at on
\* an UPDATE (schema.sql, "generated updated_at").  run_locks_cleanup
\* removes files older than an hour, which no running worker owns.
run_data_cleanup(age, recent, old_messages, old_hooks, touch) ==
    /\ \A x \in Sessions : sessions[x] = NoSession => age[x] = 0
    /\ old_messages \subseteq messages
    /\ old_hooks \in 0..Len(hooks)
    /\ recent => (old_messages = {} /\ old_hooks = 0)
    /\ \E ss1 \in {end_stale_sessions(sessions,
                         {x \in Sessions : age[x] > STALE_MINUTES})} :
       \E ss2 \in {cascade_sessions(ss1, empty_sessions(ss1, prompts, messages))} :
       \* delete_empty_sessions, lines 125-128: prompts without a session
       \E ps2 \in {{q \in prompts : ss2[q.session_id] # NoSession}} :
       LET age1 == [x \in Sessions |->
                      IF touch /\ ss1[x] # sessions[x] THEN 0 ELSE age[x]]
           \* lines 178-183
           m3 == messages \ old_messages
           aged == aged_sessions(ss2, age1)
       IN
       /\ (recent \/ ss1 = sessions) => ~touch
       /\ projects' = delete_orphan_projects(projects, ss2)
       /\ IF recent
          THEN /\ sessions' = ss2
               /\ prompts' = ps2
               /\ UNCHANGED <<messages, hooks>>
          ELSE /\ sessions' = cascade_sessions(ss2, aged)
               /\ prompts' = cascade_prompts(ps2, aged)
               /\ messages' = cascade_messages(m3, ps2, aged)
               /\ hooks' = SubSeq(hooks, old_hooks + 1, Len(hooks))
    /\ sweepIn' = [age |-> age, recent |-> recent]
    /\ UNCHANGED <<uuidUnique, serial, transcript, spawned, sweepers, passed,
                   ret, firstProject, lastEvent, favorite_sessions>>
    /\ UNCHANGED <<wvars, svars, pvars>>

\* ---- the handler threads
MaxConns == 2
Threads == 1..MaxConns
NoRequest == [kind |-> "", event |-> NoEvent]
NoTxn == [done |-> -1]

InitHandlers ==
    /\ hpc = [t \in Threads |-> "idle"]
    /\ req = [t \in Threads |-> NoRequest]
    /\ herr = [t \in Threads |-> "none"]
    /\ responses = [t \in Threads |-> <<>>]
    /\ db_lock = 0
    /\ txn = NoTxn
    /\ delivered = <<>>
    /\ received = <<>>
    /\ committed = <<>>

\* The request lines a client may send: an envelope with a hook event, a
\* line that is not JSON, a JSON value that is not an object, or nothing
\* before it closes the connection.
ServerKinds == {"SessionStart", "UserPromptSubmit", "Stop", "SubagentStop"}
ServerEvents ==
    {e \in Events : e.hook_event_name \in ServerKinds /\ e.transcript_path = ""}
    \cup {[e EXCEPT !.prompt = NULL] :
             e \in {x \in Events : /\ x.hook_event_name = "UserPromptSubmit"
                                    /\ x.transcript_path = ""}}
Requests ==
    {[kind |-> "envelope", event |-> e] : e \in ServerEvents}
    \cup {[kind |-> k, event |-> NoEvent] : k \in {"not_json", "not_object", "empty"}}

\* monitor_daemon.py:187-233  the uncommitted state of the connection after
\* the first n of the statement groups of process_event's try block:
\*   1 save_hook                     6 update_session_from_index
\*   2 upsert_project                7 create_prompt(prompt_text)
\*   3 upsert_session                8 update_session_name_if_empty
\*   4 clean_sessions                9 notify 'hook'
\*   5 create_prompt (SessionStart)
\* with the notifications that wait for the commit; t: the handler thread.
event_prefix(t, event, index_name, n) ==
    LET session_id == event.session_id
        transcript_path == event.transcript_path
        project_path == project_path_of(event)
        hook_type == event.hook_event_name
        hooks1 == Append(hooks, [session_id |-> session_id,
                                 hook_type |-> hook_type])
        status == status_of(hook_type, event.notification_type)
        project_id == upsert_project_id(project_path)
        ss1 == IF status # NULL
               THEN upsert_session(sessions, session_id, project_id, status,
                                   transcript_path)
               ELSE sessions
        stale == IF hook_type = "SessionStart"
                 THEN get_stale_session_ids(ss1, project_id, session_id)
                 ELSE {}
        ss2 == cascade_sessions(ss1, stale)
        ps2 == cascade_prompts(prompts, stale)
        ps3 == IF hook_type = "SessionStart"
               THEN create_prompt(ps2, serial.prompts, session_id, NULL)
               ELSE ps2
        ss3 == IF hook_type \in {"SessionStart", "UserPromptSubmit"}
               THEN update_session_metadata(ss2, session_id, index_name)
               ELSE ss2
        ps4 == IF hook_type = "UserPromptSubmit"
               THEN create_prompt(ps3, serial.prompts, session_id, event.prompt)
               ELSE ps3
        ss4 == IF hook_type = "UserPromptSubmit"
               THEN update_session_name_if_empty(ss3, session_id, event.prompt)
               ELSE ss3
        pr2 == upsert_project(project_path)
    IN  [done |-> n,
         hooks |-> IF n >= 4 THEN cascade_hooks(hooks1, stale)
                   ELSE IF n >= 1 THEN hooks1 ELSE hooks,
         projects |-> IF n >= 2 THEN pr2 ELSE projects,
         sessions |-> IF n >= 8 THEN ss4 ELSE IF n >= 6 THEN ss3
                      ELSE IF n >= 4 THEN ss2 ELSE IF n >= 3 THEN ss1
                      ELSE sessions,
         prompts |-> IF n >= 7 THEN ps4 ELSE IF n >= 5 THEN ps3
                     ELSE IF n >= 4 THEN ps2 ELSE prompts,
         messages |-> IF n >= 4 THEN cascade_messages(messages, prompts, stale)
                      ELSE messages,
         serial |-> [serial EXCEPT
                       !.hooks = IF n >= 1 THEN @ + 1 ELSE @,
                       !.projects = IF n >= 2 /\ pr2 # projects THEN @ + 1 ELSE @,
                       !.prompts = IF \/ n >= 5 /\ hook_type = "SessionStart"
                                      \/ n >= 7 /\ hook_type = "UserPromptSubmit"
                                   THEN @ + 1 ELSE @],
         notes |-> (IF n >= 4 /\ stale # {}
                    THEN <<[channel |-> "sessions_deleted", thread |-> t]>>
                    ELSE <<>>)
                   \o (IF n >= 9 THEN <<[channel |-> "hook", thread |-> t]>>
                       ELSE <<>>)]

\* conn.commit(): the work of the transaction reaches the tables and its
\* notifications are delivered (db.py:50-54).
commit_txn ==
    /\ hooks' = txn.hooks
    /\ projects' = txn.projects
    /\ sessions' = txn.sessions
    /\ prompts' = txn.prompts
    /\ messages' = txn.messages
    /\ serial' = txn.serial
    /\ delivered' = delivered \o txn.notes

HGoto(t, l) == hpc' = [hpc EXCEPT ![t] = l]

\* socketserver: the connections are accepted one after the other, each
\* handled in a thread of its own; monitor_daemon.py:261 readline
Receive(t, r) ==
    /\ hpc[t] = "idle"
    /\ t = Len(received) + 1
    /\ req' = [req EXCEPT ![t] = r]
    /\ received' = Append(received, t)
    /\ HGoto(t, "handle")
    /\ UNCHANGED <<herr, responses, db_lock, txn, delivered, committed>>
    /\ UNCHANGED <<wvars, dbVars, cvars, pvars>>

\* monitor_daemon.py:262-282  no line: return; json.loads; message.get (a
\* JSON value without get raises AttributeError, caught at line 276)
Handle(t) ==
    /\ hpc[t] = "handle"
    /\ HGoto(t, CASE req[t].kind = "empty" -> "closed"
                  [] req[t].kind = "not_json" -> "respond_json_error"
                  [] req[t].kind = "not_object" -> "respond_error"
                  [] OTHER -> "acquire")
    /\ UNCHANGED <<req, herr, responses, db_lock, txn, delivered, received,
                   committed>>
    /\ UNCHANGED <<wvars, dbVars, cvars, pvars>>

\* monitor_daemon.py:177  with _db_lock:
Acquire(t) ==
    /\ hpc[t] = "acquire"
    /\ db_lock = 0
    /\ db_lock' = t
    /\ HGoto(t, "get_conn")
    /\ UNCHANGED <<req, herr, responses, txn, delivered, received, committed>>
    /\ UNCHANGED <<wvars, dbVars, cvars, pvars>>

\* monitor_daemon.py:178, 44-61  conn = get_conn(), outside the try block:
\* a failing get_db() leaves the with block (the lock is released) and
\* reaches the handler of line 276
GetConn(t) ==
    /\ hpc[t] = "get_conn"
    /\ \/ HGoto(t, "db_section") /\ UNCHANGED db_lock
       \/ HGoto(t, "respond_error") /\ db_lock' = 0
    /\ UNCHANGED <<req, herr, responses, txn, delivered, received, committed>>
    /\ UNCHANGED <<wvars, dbVars, cvars, pvars>>

\* What may end the try block after n statement groups:
\*   "db"          a statement fails in the database (any n)
\*   "ValueError"  int(terminal_id_str), line 185, CLAUDE_TERMINAL_ID not a number
\*   "TypeError"   name[:200] on a customTitle that is not a string
\*                 (db.py:135), or on a prompt that is null (db.py:144)
raises_after(event, cause, n) ==
    CASE cause = "none" -> n = 9
      [] cause = "db" -> n \in 0..8
      [] cause = "ValueError" -> n = 0
      [] cause = "TypeError" ->
            \/ n = 5 /\ event.hook_event_name \in {"SessionStart", "UserPromptSubmit"}
            \/ n = 7 /\ event.hook_event_name = "UserPromptSubmit"
                     /\ event.prompt = NULL

\* monitor_daemon.py:179-233  the statements of the try block
DbSection(t, index_name, cause, n) ==
    /\ hpc[t] = "db_section"
    /\ raises_after(req[t].event, cause, n)
    /\ cause = "none" => req[t].event.prompt # NULL
    /\ (n < 6 \/ req[t].event.hook_event_name \notin
                   {"SessionStart", "UserPromptSubmit"}) => index_name = NULL
    /\ txn' = event_prefix(t, req[t].event, index_name, n)
    /\ herr' = [herr EXCEPT ![t] = cause]
    /\ HGoto(t, IF cause = "none" THEN "commit" ELSE "except")
    /\ UNCHANGED <<req, responses, db_lock, delivered, received, committed>>
    /\ UNCHANGED <<wvars, dbVars, cvars, pvars>>

\* (mutant of Commit: the post-commit actions run inside the with block)
Commit_KeepingLock(t) ==
    /\ hpc[t] = "commit"
    /\ \/ /\ commit_txn
          /\ txn' = NoTxn
          /\ committed' = Append(committed, [thread |-> t, done |-> txn.done])
          /\ UNCHANGED db_lock
          /\ HGoto(t, "post_commit")
          /\ UNCHANGED herr
       \/ /\ herr' = [herr EXCEPT ![t] = "db"]
          /\ HGoto(t, "except")
          /\ UNCHANGED <<txn, committed, db_lock, delivered, hooks, projects,
                         sessions, prompts, messages, serial>>
    /\ UNCHANGED <<req, responses, received>>
    /\ UNCHANGED <<uuidUnique, transcript, spawned, sweepers, passed, ret,
                   firstProject, lastEvent>>
    /\ UNCHANGED <<wvars, cvars, pvars>>

\* monitor_daemon.py:235  conn.commit(), then the end of the with block; a
\* commit that fails goes to the handler of line 237
Commit(t) ==
    /\ hpc[t] = "commit"
    /\ \/ /\ commit_txn
          /\ txn' = NoTxn
          /\ committed' = Append(committed, [thread |-> t, done |-> txn.done])
          /\ db_lock' = 0
          /\ HGoto(t, "post_commit")
          /\ UNCHANGED herr
       \/ /\ herr' = [herr EXCEPT ![t] = "db"]
          /\ HGoto(t, "except")
          /\ UNCHANGED <<txn, committed, db_lock, delivered, hooks, projects,
                         sessions, prompts, messages, serial>>
    /\ UNCHANGED <<req, responses, received>>
    /\ UNCHANGED <<uuidUnique, transcript, spawned, sweepers, passed, ret,
                   firstProject, lastEvent>>
    /\ UNCHANGED <<wvars, cvars, pvars>>

\* monitor_daemon.py:237-243  log 'Daemon processing error' and commit; when
\* that fails (the transaction is aborted after a database error),
\* reset_conn (lines 64-76) rolls back.  Then return {"continue": True}.
Except(t) ==
    /\ hpc[t] = "except"
    /\ IF herr[t] = "db"
       THEN /\ UNCHANGED <<delivered, committed, hooks, projects, sessions,
                           prompts, messages, serial>>
       ELSE /\ commit_txn
            /\ committed' = IF txn.done = 0 THEN committed
                            ELSE Append(committed,
                                        [thread |-> t, done |-> txn.done])
    /\ txn' = NoTxn
    /\ herr' = [herr EXCEPT ![t] = "none"]
    /\ db_lock' = 0
    /\ HGoto(t, "respond")
    /\ UNCHANGED <<req, responses, received>>
    /\ UNCHANGED <<uuidUnique, transcript, spawned, sweepers, passed, ret,
                   firstProject, lastEvent>>
    /\ UNCHANGED <<wvars, cvars, pvars>>

\* (mutant of starts_cleanup_worker: every hook starts a sweeper)
starts_cleanup_worker_always(hook_type) == TRUE

\* monitor_daemon.py:248  if hook_type != 'SessionStart':
starts_cleanup_worker(hook_type) == hook_type # "SessionStart"

\* monitor_daemon.py:245-251  start_debounced_worker, start_cleanup_worker;
\* fail: the call that raises OSError (mkdir, write_text, Popen), which the
\* handler of line 276 catches
PostCommit(t, fail) ==
    /\ hpc[t] = "post_commit"
    /\ LET session_id == req[t].event.session_id
           sweep == starts_cleanup_worker(req[t].event.hook_event_name)
       IN
       /\ fail = "cleanup" => sweep
       /\ spawned' = IF fail = "worker" THEN spawned
                      ELSE [spawned EXCEPT ![session_id] = @ + 1]
       /\ sweepers' = IF fail = "none" /\ sweep THEN sweepers + 1 ELSE sweepers
    /\ HGoto(t, IF fail = "none" THEN "respond" ELSE "respond_error")
    /\ UNCHANGED <<req, herr, responses, db_lock, txn, delivered, received,
                   committed>>
    /\ UNCHANGED <<uuidUnique, serial, projects, sessions, prompts, hooks,
                   messages, transcript, passed, ret, firstProject, lastEvent>>
    /\ UNCHANGED <<wvars, cvars, pvars>>

\* (mutant of response_of: an exception reaches the client)
response_of_surfaced(path) ==
    IF path = "respond_error" THEN [continue |-> FALSE] ELSE [continue |-> TRUE]

\* monitor_daemon.py:243, 251, 274, 279  the response of each path
response_of(path) == [continue |-> TRUE]

\* monitor_daemon.py:270-271, 274-275, 279-280  write the response line
Respond(t) ==
    /\ hpc[t] \in {"respond", "respond_json_error", "respond_error"}
    /\ responses' = [responses EXCEPT ![t] = Append(@, response_of(hpc[t]))]
    /\ HGoto(t, "closed")
    /\ UNCHANGED <<req, herr, db_lock, txn, delivered, received, committed>>
    /\ UNCHANGED <<wvars, dbVars, cvars, pvars>>

HandlerStep(t) ==
    \/ \E r \in Requests : Receive(t, r)
    \/ Handle(t)
    \/ Acquire(t)
    \/ GetConn(t)
    \/ \E index_name \in IndexNames,
          cause \in {"none", "db", "ValueError", "TypeError"}, n \in 0..9 :
          DbSection(t, index_name, cause, n)
    \/ Commit(t)
    \/ Except(t)
    \/ \E fail \in {"none", "worker", "cleanup"} : PostCommit(t, fail)
    \/ Respond(t)

InitSettings ==
    /\ favorite_sessions = {}
    /\ sweepIn = NoSweep

\* No function called yet.
NoCall == [op |-> "none"]
InitFunctions ==
    /\ fin = NoCall
    /\ fout = NoCall
    /\ unread = {}
    /\ runs = [p \in Passes |-> NoRun]
    /\ conn = [w \in Workers |-> "clean"]

InitWorkers ==
    /\ marker = NoMarker
    /\ lock = NoLock
    /\ nhooks = 0
    /\ pc = [w \in Workers |-> "idle"]
    /\ lat = [w \in Workers |-> 0]
    /\ cur = [w \in Workers |-> 0]
    /\ slept = [w \in Workers |-> 0]
    /\ err = [w \in Workers |-> "none"]
    /\ logs = <<0, "">>
    /\ lastPassAt = 0
    /\ hookDuring = [w \in Workers |-> 0]
    /\ tailHook = 0
    /\ passes = <<>>
    /\ burst = TRUE

\* The database after SessionStart and UserPromptSubmit of s1 and
\* SessionStart of s2 (a session without a prompt text or a name yet), the
\* hooks table emptied since (delete_old_logs_and_hooks), with empty
\* transcripts.
InitDatabase ==
    /\ serial = [projects |-> 2, prompts |-> 4, hooks |-> 4, messages |-> 1]
    /\ projects = {[id |-> 1, path |-> "/a"]}
    /\ sessions = [s \in Sessions |->
                     [project_id |-> 1,
                      status |-> IF s = "s1" THEN "active" ELSE "started",
                      transcript_path |-> "/c/-a/" \o s \o ".jsonl",
                      name |-> IF s = "s1" THEN "hi" ELSE NULL]]
    /\ prompts = {[id |-> 1, session_id |-> "s1", prompt |-> NULL],
                  [id |-> 2, session_id |-> "s1", prompt |-> "hi"],
                  [id |-> 3, session_id |-> "s2", prompt |-> NULL]}
    /\ hooks = <<>>
    /\ messages = {}
    /\ transcript = [s \in Sessions |-> <<>>]
    /\ spawned = [s \in Sessions |-> 0]
    /\ sweepers = 0
    /\ passed = [s \in Sessions |-> -1]
    /\ ret = NoPass
    /\ firstProject = [s \in Sessions |-> "/a"]
    /\ lastEvent = NoEvent

Init ==
    /\ InitWorkers
    /\ InitDatabase
    /\ InitHandlers
    /\ InitSettings
    /\ InitFunctions
    /\ uuidUnique = TRUE

Next ==
    \/ StartDebouncedWorker
    \/ Tick
    \/ LongPause
    \/ \E w \in Workers : WorkerStep(w)

Spec == Init /\ [][Next]_vars

\* ---- lock waiting behind a lock file whose writer is gone (killed between
\* worker.py:590 and 636, as the stale lock file of tests/test_worker.py):
\* no process will remove it.  Every process keeps being scheduled and time
\* keeps passing, which is what the fairness conditions say.
MaxLiveHooks == 2
LostWorker == MaxHooks + 1
InitLive ==
    /\ marker = NoMarker
    /\ lock = [age |-> 0, owner |-> LostWorker]
    /\ nhooks = 0
    /\ pc = [w \in Workers |-> "idle"]
    /\ lat = [w \in Workers |-> 0]
    /\ cur = [w \in Workers |-> 0]
    /\ slept = [w \in Workers |-> 0]
    /\ err = [w \in Workers |-> "none"]
    /\ logs = <<0, "">>
    /\ lastPassAt = 0
    /\ hookDuring = [w \in Workers |-> 0]
    /\ tailHook = 0
    /\ passes = <<>>
    /\ burst = TRUE
    /\ InitDatabase
    /\ InitHandlers
    /\ InitSettings
    /\ InitFunctions
    /\ uuidUnique = TRUE

NextLive ==
    \/ (nhooks < MaxLiveHooks /\ StartDebouncedWorker)
    \/ Tick
    \/ LongPause
    \/ \E w \in Workers : WorkerStep(w)

SpecLive ==
    /\ InitLive
    /\ [][NextLive]_vars
    /\ WF_vars(Tick)
    /\ WF_vars(LongPause)
    /\ \A w \in Workers : WF_vars(WorkerStep(w))

\* ---- the reconciler of a session whose transcript file may be unreadable
NextUnread ==
    \/ (nhooks < MaxLiveHooks /\ StartDebouncedWorker)
    \/ Tick
    \/ LongPause
    \/ \E w \in Workers : WorkerStep(w)
    \/ \E w \in Workers : ProcessTranscriptUnread(w)

SpecUnread == Init /\ [][NextUnread]_vars

\* ---- the reconciler with the transaction of its connection
NextCommit ==
    \/ (nhooks < MaxLiveHooks /\ StartDebouncedWorker)
    \/ Tick
    \/ LongPause
    \/ \E w \in Workers :
          \/ DebounceSleep(w)
          \/ ReadMarker(w)
          \/ LockExists(w)
          \/ LockRead(w)
          \/ LockUnlink(w)
          \/ LockSleep(w)
          \/ LockWrite(w)
          \/ RecheckMarker(w)
          \/ GetSession(w)
          \/ ProcessTranscriptCommit(w)
          \/ ProcessTranscriptRaise(w)
          \/ CleanupRead(w)
          \/ CleanupDecide(w)
          \/ Release(w)
          \/ WorkerErrorCommit(w)

SpecCommit == Init /\ [][NextCommit]_vars

\* ---- concurrent passes over transcripts that share lines (the transcript
\* of a resumed session repeats the lines of the session it continues)
RacePool ==
    { TextEntry("user", "u1", "hello"),
      TextEntry("assistant", "u2", "done"),
      ToolUseEntry("u8", "toolu_6", "Bash", <<>>) }

NextRace ==
    \/ \E s \in Sessions, e \in RacePool : AppendEntry(s, e)
    \/ \E p \in Passes, s \in Sessions : StartPass(p, s)
    \/ \E p \in Passes : CheckItem(p)
    \/ \E p \in Passes : InsertItem(p)
    \/ \E p \in Passes : CommitPass(p)

SpecRace == Init /\ [][NextRace]_vars

\* ---- the transcript passes over the store
InitStore ==
    /\ InitWorkers
    /\ InitDatabase
    /\ InitHandlers
    /\ InitSettings
    /\ InitFunctions
    /\ uuidUnique \in BOOLEAN

NextStore ==
    \/ \E s \in Sessions, e \in EntryPool : AppendEntry(s, e)
    \/ \E s \in Sessions : process_transcript(s)

SpecStore == InitStore /\ [][NextStore]_vars

\* ---- the daemon and the sweeper over an empty database
InitDaemon ==
    /\ InitWorkers
    /\ InitHandlers
    /\ InitSettings
    /\ InitFunctions
    /\ uuidUnique = TRUE
    /\ serial = [projects |-> 1, prompts |-> 1, hooks |-> 1, messages |-> 1]
    /\ projects = {}
    /\ sessions = [s \in Sessions |-> NoSession]
    /\ prompts = {}
    /\ hooks = <<>>
    /\ messages = {}
    /\ transcript = [s \in Sessions |-> <<>>]
    /\ spawned = [s \in Sessions |-> 0]
    /\ sweepers = 0
    /\ passed = [s \in Sessions |-> -1]
    /\ ret = NoPass
    /\ firstProject = [s \in Sessions |-> ""]
    /\ lastEvent = NoEvent

NextDaemon ==
    \/ \E event \in Events, index_name \in IndexNames :
          process_event(event, index_name)
    \/ \E old \in SUBSET Sessions : run_cleanup(old)

SpecDaemon == InitDaemon /\ [][NextDaemon]_vars

\* ---- the writers of sessions.name, with names longer than NAME_MAX
RECURSIVE Repeat(_, _)
Repeat(str, n) == IF n = 0 THEN "" ELSE str \o Repeat(str, n - 1)
LongName == Repeat("x", NAME_MAX + 1)
TitlePool ==
    { TextEntry("user", "u1", LongName),
      CustomTitleEntry("T"),
      CustomTitleEntry(LongName) }
TitleEvents ==
    { [session_id |-> sid, hook_event_name |-> k, notification_type |-> "",
       transcript_path |-> "/c/-a/t.jsonl", cwd |-> "/a",
       prompt |-> IF k = "UserPromptSubmit" THEN LongName ELSE ""] :
      sid \in {"s1"}, k \in {"SessionStart", "UserPromptSubmit"} }

NextTitle ==
    \/ \E s \in Sessions, e \in TitlePool : AppendEntry(s, e)
    \/ \E s \in Sessions : process_transcript(s)
    \/ \E event \in TitleEvents, index_name \in {NULL, LongName} :
          process_event(event, index_name)

SpecTitle == InitDaemon /\ [][NextTitle]_vars

\* ---- passes over a transcript whose tool results arrive after the tool
\* uses
ResultPool ==
    { TextEntry("user", "u1", "hello"),
      ToolUseEntry("u8", "toolu_6", "Bash", <<>>),
      ToolUseEntry("u9", "toolu_7", "Read", <<>>),
      ToolResultEntry("u10", "toolu_6", "boom", TRUE),
      ToolResultEntry("u11", "toolu_6", "fine", FALSE),
      ToolResultEntry("u12", "toolu_7", "text", FALSE) }

NextResult ==
    \/ \E s \in Sessions, e \in ResultPool : AppendEntry(s, e)
    \/ \E s \in Sessions : process_transcript(s)

SpecResult == InitStore /\ [][NextResult]_vars

\* ---- passes and sweeper runs over the lifetime of a session: a run finds
\* any set of messages older than three days
LifetimePool ==
    { TextEntry("user", "u1", "hello"),
      TextEntry("assistant", "u2", "done"),
      ToolUseEntry("u8", "toolu_6", "Bash", <<>>) }

\* The sweeper stops running once this many message ids have been given out.
MaxSerial == 3

NextLifetime ==
    \/ \E s \in Sessions, e \in LifetimePool : AppendEntry(s, e)
    \/ \E s \in Sessions : process_transcript(s)
    \/ \E recent \in BOOLEAN :
         /\ serial.messages <= MaxSerial
         /\ \E old_messages \in IF recent THEN {{}} ELSE SUBSET messages :
            run_data_cleanup([x \in Sessions |-> 0], recent, old_messages, 0, FALSE)

SpecLifetime == InitStore /\ [][NextLifetime]_vars

\* ---- passes, statement by statement, while the daemon processes hooks
\* and the sweeper runs (each of these in a transaction of its own)
MixedEvents ==
    {e \in Events :
        /\ e.transcript_path # ""
        /\ e.hook_event_name \in {"SessionStart", "Stop"}}

NextMixed ==
    \/ \E s \in Sessions : AppendEntry(s, TextEntry("user", "u1", "hello"))
    \/ \E p \in Passes, s \in Sessions : StartPass(p, s)
    \/ \E p \in Passes : CheckItem(p)
    \/ \E p \in Passes : InsertItem(p)
    \/ \E p \in Passes : CommitPass(p)
    \/ \E event \in MixedEvents : process_event(event, NULL)
    \/ \E old \in SUBSET Sessions : run_cleanup(old)

SpecMixed == InitDaemon /\ [][NextMixed]_vars

\* ---- the sweeper, or one more hook, over a populated database
\* What earlier hooks and passes have left of a session: its status, the
\* bodies of its prompts in creation order, and the number of messages of
\* its latest prompt.  (A hook of a session unknown so far inserts its row
\* without a prompt; every SessionStart adds a prompt without a body; a pass
\* stores messages and fills the body of the latest prompt.)
Profiles ==
    { [status |-> "started",           bodies |-> <<NULL>>,       nmsg |-> 0],
      [status |-> "started",           bodies |-> <<NULL>>,       nmsg |-> 1],
      [status |-> "active",            bodies |-> <<NULL>>,       nmsg |-> 0],
      [status |-> "active",            bodies |-> <<NULL, "hi">>, nmsg |-> 1],
      [status |-> "permission_needed", bodies |-> <<"hi">>,       nmsg |-> 0],
      [status |-> "done",              bodies |-> <<>>,           nmsg |-> 0],
      [status |-> "idle",              bodies |-> <<NULL, NULL>>, nmsg |-> 0],
      [status |-> "ended",             bodies |-> <<NULL>>,       nmsg |-> 0] }
NoProfile == [status |-> "", bodies |-> <<>>, nmsg |-> 0]
\* The prompt ids of the sessions: 1, 2 for s1 and 3, 4 for s2.
FirstId(x) == IF x = "s1" THEN 1 ELSE 3

prompts_of(x, prof) ==
    {[id |-> FirstId(x) + i - 1, session_id |-> x, prompt |-> prof.bodies[i]] :
        i \in DOMAIN prof.bodies}
messages_of(x, prof) ==
    IF prof.nmsg = 0 THEN {}
    ELSE {[id |-> IF x = "s1" THEN 1 ELSE 2,
           prompt_id |-> FirstId(x) + Len(prof.bodies) - 1,
           uuid |-> "m-" \o x, body |-> "hi", is_user |-> TRUE,
           tools |-> NoTools, todo_id |-> NULL]}
hooks_of(x, prof) ==
    IF prof = NoProfile THEN <<>>
    ELSE <<[session_id |-> x,
            hook_type |-> IF prof.bodies = <<>> THEN "Stop" ELSE "SessionStart"]>>

InitSweeper ==
    /\ InitWorkers
    /\ InitHandlers
    /\ InitFunctions
    /\ uuidUnique = TRUE
    /\ favorite_sessions \in SUBSET Sessions
    /\ sweepIn = NoSweep
    /\ \E prof \in [Sessions -> Profiles \cup {NoProfile}], p2 \in {1, 2} :
        LET project_of(x) == IF x = "s1" THEN 1 ELSE p2 IN
        /\ \E x \in Sessions : prof[x] # NoProfile
        /\ projects = {[id |-> 1, path |-> "/a"], [id |-> 2, path |-> "/b"]}
        /\ sessions = [x \in Sessions |->
              IF prof[x] = NoProfile THEN NoSession
              ELSE [project_id |-> project_of(x), status |-> prof[x].status,
                    transcript_path |-> "/c/-a/" \o x \o ".jsonl",
                    name |-> IF prof[x].nmsg > 0 THEN "hi" ELSE NULL]]
        /\ prompts = UNION {prompts_of(x, prof[x]) : x \in Sessions}
        /\ messages = UNION {messages_of(x, prof[x]) : x \in Sessions}
        /\ hooks = hooks_of("s1", prof["s1"]) \o hooks_of("s2", prof["s2"])
        /\ firstProject = [x \in Sessions |->
              IF prof[x] = NoProfile THEN ""
              ELSE IF project_of(x) = 1 THEN "/a" ELSE "/b"]
    /\ serial = [projects |-> 3, prompts |-> 5, hooks |-> MaxEvents,
                 messages |-> 3]
    /\ transcript = [x \in Sessions |-> <<>>]
    /\ spawned = [x \in Sessions |-> 0]
    /\ sweepers = 0
    /\ passed = [x \in Sessions |-> -1]
    /\ ret = NoPass
    /\ lastEvent = NoEvent

NextSweeper ==
    \E age \in [Sessions -> Ages], recent \in BOOLEAN :
      \E touch \in IF recent THEN {FALSE} ELSE BOOLEAN,
         old_messages \in IF recent THEN {{}} ELSE SUBSET messages,
         old_hooks \in IF recent THEN {0} ELSE 0..Len(hooks) :
         run_data_cleanup(age, recent, old_messages, old_hooks, touch)

SpecSweeper == InitSweeper /\ [][NextSweeper]_vars

\* ---- passes over transcripts with local-command entries
FilterPool ==
    { TextEntry("user", "u1", "hello"),
      TextEntry("user", "u2", "<local-command-stdout>ok</local-command-stdout>"),
      TextEntry("user", "u3", "Caveat: <local-command-caveat>"),
      TextEntry("user", "u4", "<command-name>/clear</command-name>"),
      TextEntry("assistant", "u5", "done") }

NextFilter ==
    \/ \E s \in Sessions, e \in FilterPool : AppendEntry(s, e)
    \/ \E s \in Sessions : process_transcript(s)

SpecFilter == InitStore /\ [][NextFilter]_vars

\* ---- the daemon's handler threads over an empty database
NextServer == \E t \in Threads : HandlerStep(t)

SpecServer == InitDaemon /\ [][NextServer]_vars

\* One more hook over the same databases (serial.hooks = MaxEvents).
NextHook ==
    \E event \in Events, index_name \in IndexNames :
       process_event(event, index_name)

SpecHook == InitSweeper /\ [][NextHook]_vars

\* ======================================================================
\* The Edit projector (worker.py generate_diff)
\* ======================================================================
\* Python  str.startswith(p)
startswith(str, p) == Len(str) >= Len(p) /\ SubSeq(str, 1, Len(p)) = p

\* Python  str.splitlines(keepends), for texts whose line boundaries are "\n"
RECURSIVE splitlines(_, _)
splitlines(str, keepends) ==
    LET ends == {i \in 1..Len(str) : SubSeq(str, i, i) = "\n"}
        e == CHOOSE i \in ends : \A j \in ends : i <= j
    IN  IF str = "" THEN <<>>
        ELSE IF ends = {} THEN <<str>>
        ELSE <<SubSeq(str, 1, IF keepends THEN e ELSE e - 1)>>
             \o splitlines(SubSeq(str, e + 1, Len(str)), keepends)

\* difflib.SequenceMatcher.find_longest_match (no junk): the blocks
\* a[i:i+k] = b[j:j+k] inside a[alo:ahi], b[blo:bhi] (offsets from 0), and
\* the longest of them, the earliest in a and then in b among the longest.
matching_blocks(a, b, alo, ahi, blo, bhi) ==
    {m \in (alo..(ahi - 1)) \X (blo..(bhi - 1)) \X (1..(ahi - alo)) :
        /\ m[1] + m[3] <= ahi
        /\ m[2] + m[3] <= bhi
        /\ \A d \in 0..(m[3] - 1) : a[m[1] + d + 1] = b[m[2] + d + 1]}
find_longest_match(a, b, alo, ahi, blo, bhi) ==
    LET ms == matching_blocks(a, b, alo, ahi, blo, bhi)
    IN  CHOOSE m \in ms : \A q \in ms :
           \/ m[3] > q[3]
           \/ m[3] = q[3] /\ m[1] < q[1]
           \/ m[3] = q[3] /\ m[1] = q[1] /\ m[2] <= q[2]

Opcode(tag, i1, i2, j1, j2) ==
    [tag |-> tag, i1 |-> i1, i2 |-> i2, j1 |-> j1, j2 |-> j2]

\* difflib.SequenceMatcher.get_matching_blocks and get_opcodes: the longest
\* match splits the ranges, what lies before and after it is matched in turn,
\* and a stretch without a match is replaced, deleted or inserted.
RECURSIVE get_opcodes(_, _, _, _, _, _)
get_opcodes(a, b, alo, ahi, blo, bhi) ==
    IF alo = ahi /\ blo = bhi THEN <<>>
    ELSE IF matching_blocks(a, b, alo, ahi, blo, bhi) = {}
    THEN <<Opcode(IF alo = ahi THEN "insert"
                  ELSE IF blo = bhi THEN "delete" ELSE "replace",
                  alo, ahi, blo, bhi)>>
    ELSE LET m == find_longest_match(a, b, alo, ahi, blo, bhi)
             i == m[1]
             j == m[2]
             k == m[3]
         IN  get_opcodes(a, b, alo, i, blo, j)
             \o <<Opcode("equal", i, i + k, j, j + k)>>
             \o get_opcodes(a, b, i + k, ahi, j + k, bhi)

\* difflib.unified_diff(n=3): lines of context around a change
DIFF_CONTEXT == 3

\* difflib.SequenceMatcher.get_grouped_opcodes: the opcodes with the leading
\* and the trailing run of equal lines cut to DIFF_CONTEXT lines.  (A run of
\* more than 2 * DIFF_CONTEXT equal lines between two changes would start
\* another hunk; texts of up to 2 * DIFF_CONTEXT lines have one hunk.)
get_grouped_opcodes(codes) ==
    [x \in DOMAIN codes |->
        LET c == codes[x]
            c1 == IF x = 1 /\ c.tag = "equal"
                  THEN [c EXCEPT !.i1 = Max(c.i1, c.i2 - DIFF_CONTEXT),
                                 !.j1 = Max(c.j1, c.j2 - DIFF_CONTEXT)]
                  ELSE c
        IN  IF x = Len(codes) /\ c1.tag = "equal"
            THEN [c1 EXCEPT !.i2 = Min(c1.i2, c1.i1 + DIFF_CONTEXT),
                            !.j2 = Min(c1.j2, c1.j1 + DIFF_CONTEXT)]
            ELSE c1]

\* difflib._format_range_unified
format_range_unified(start, stop) ==
    LET beginning == start + 1
        length == stop - start
    IN  IF length = 1 THEN ToString(beginning)
        ELSE ToString(IF length = 0 THEN beginning - 1 ELSE beginning)
             \o "," \o ToString(length)

\* The lines lines[lo:hi], each behind the prefix tag.
tagged(tag, lines, lo, hi) == [x \in 1..(hi - lo) |-> tag \o lines[lo + x]]

\* difflib.unified_diff: the lines of one hunk
RECURSIVE hunk_lines(_, _, _)
hunk_lines(group, a, b) ==
    IF group = <<>> THEN <<>>
    ELSE LET c == Head(group) IN
         (IF c.tag = "equal" THEN tagged(" ", a, c.i1, c.i2)
          ELSE (IF c.tag \in {"replace", "delete"}
                THEN tagged("-", a, c.i1, c.i2) ELSE <<>>)
               \o (IF c.tag \in {"replace", "insert"}
                   THEN tagged("+", b, c.j1, c.j2) ELSE <<>>))
         \o hunk_lines(Tail(group), a, b)

\* difflib.unified_diff(a, b, fromfile, tofile, lineterm): nothing for equal
\* sequences; else the two file headers and the hunk header, each ended by
\* lineterm, and the lines of the hunk as they are
unified_diff(a, b, fromfile, tofile, lineterm) ==
    LET group == get_grouped_opcodes(get_opcodes(a, b, 0, Len(a), 0, Len(b)))
        first == group[1]
        last == group[Len(group)]
    IN  IF group = <<>> \/ (Len(group) = 1 /\ group[1].tag = "equal") THEN <<>>
        ELSE << "--- " \o fromfile \o lineterm,
                "+++ " \o tofile \o lineterm,
                "@@ -" \o format_range_unified(first.i1, last.i2)
                       \o " +" \o format_range_unified(first.j1, last.j2)
                       \o " @@" \o lineterm >>
             \o hunk_lines(group, a, b)

\* worker.py:52  Path(file_path).name if file_path else "file"
diff_filename(file_path) ==
    LET parts == path_parts(file_path, "", <<>>)
    IN  IF file_path = "" THEN "file"
        ELSE IF parts = <<>> THEN "" ELSE parts[Len(parts)]

\* worker.py:64, 65  the lines of diff_text that start with sign and not
\* with three of it
count_signed(diff_text, sign) ==
    LET lines == splitlines(diff_text, FALSE)
    IN  Cardinality({x \in DOMAIN lines :
                        /\ startswith(lines[x], sign)
                        /\ ~startswith(lines[x], sign \o sign \o sign)})

\* worker.py:39-69  (difflib raises nothing on lists of strings)
generate_diff(old_string, new_string, file_path) ==
    LET old_lines == splitlines(old_string, TRUE)
        new_lines == splitlines(new_string, TRUE)
        filename == diff_filename(file_path)
        diff == unified_diff(old_lines, new_lines, "a/" \o filename,
                             "b/" \o filename, "")
        diff_text == join(diff, "")
    IN  IF old_string = "" /\ new_string = ""
        THEN [diff |-> "", lines_added |-> 0, lines_removed |-> 0]
        ELSE [diff |-> diff_text,
              lines_added |-> count_signed(diff_text, "+"),
              lines_removed |-> count_signed(diff_text, "-")]

\* ---- generate_diff over the texts of an Edit
MaxLines == 3
\* The lines of the edited files: plain text, and a line of dashes or of
\* plus signs (a comment marker, a rule, an operator).
DiffLines == {"a", "b", "--", "++"}
\* The values of old_string and new_string: up to MaxLines lines, the last
\* with or without its newline.
DiffTexts ==
    {join(ls, "\n") \o nl :
        ls \in UNION {[1..n -> DiffLines] : n \in 0..MaxLines},
        nl \in {"", "\n"}}
DiffPaths == {"/x/y.txt", ""}

\* worker.py:113-118  build_tool_json for an Edit: the arguments of
\* generate_diff
InitDiff ==
    /\ InitWorkers
    /\ InitDatabase
    /\ InitHandlers
    /\ InitSettings
    /\ uuidUnique = TRUE
    /\ unread = {}
    /\ runs = [p \in Passes |-> NoRun]
    /\ conn = [w \in Workers |-> "clean"]
    /\ \E old_string \in DiffTexts, new_string \in DiffTexts,
          file_path \in DiffPaths :
         fin = [op |-> "Edit", old_string |-> old_string,
                new_string |-> new_string, file_path |-> file_path]
    /\ fout = NoCall

GenerateDiff ==
    /\ fin.op = "Edit"
    /\ fout = NoCall
    /\ fout' = generate_diff(fin.old_string, fin.new_string, fin.file_path)
    /\ UNCHANGED fin
    /\ UNCHANGED <<wvars, dbVars, svars, cvars, rvars>>

NextDiff == GenerateDiff

SpecDiff == InitDiff /\ [][NextDiff]_vars

\* ---- compute_todo_hash over the todo lists of successive TodoWrite calls
MaxTodos == 3
MaxAttempts == 2
TodoContents == {"a", "b"}
TodoStatuses == {"pending", "in_progress", "completed"}
TodoLists ==
    UNION {[1..n -> {Todo(c, st) : c \in TodoContents, st \in TodoStatuses}] :
              n \in 0..MaxTodos}
ToolUseIds == {"toolu_1", "toolu_2"}
PromptIds == {1, 2}

\* worker.py:313-314, db.py:313  the TodoWrite whose hash is computed: the
\* session, the todos of its input, its tool-use id, the latest prompt and
\* the number of the pass that reads it
TodoWrite(op, session_id, todos, tool_use_id, prompt_id, attempt) ==
    [op |-> op, session_id |-> session_id, todos |-> todos,
     tool_use_id |-> tool_use_id, prompt_id |-> prompt_id, attempt |-> attempt]

HashCall(call) ==
    /\ fin' = call
    /\ fout' = compute_todo_hash(call.session_id, call.todos)
    /\ UNCHANGED <<wvars, dbVars, svars, cvars, rvars>>

\* The same todos written in another order.
PermuteTodos ==
    \E i, j \in DOMAIN fin.todos :
       /\ i < j
       /\ HashCall([fin EXCEPT !.op = "permute",
                               !.todos = [@ EXCEPT ![i] = fin.todos[j],
                                                   ![j] = fin.todos[i]]])
\* A todo changes its status.
RestatusTodo ==
    \E i \in DOMAIN fin.todos, st \in TodoStatuses :
       /\ st # fin.todos[i].status
       /\ HashCall([fin EXCEPT !.op = "restatus", !.todos[i].status = st])
\* A later pass reads the list again, under any tool-use id and prompt.
Reingest ==
    \E id \in ToolUseIds, prompt_id \in PromptIds :
       /\ fin.attempt < MaxAttempts
       /\ HashCall([fin EXCEPT !.op = "reingest", !.tool_use_id = id,
                               !.prompt_id = prompt_id, !.attempt = @ + 1])
\* A todo is reworded.
RewordTodo ==
    \E i \in DOMAIN fin.todos, c \in TodoContents :
       /\ c # fin.todos[i].content
       /\ HashCall([fin EXCEPT !.op = "reword", !.todos[i].content = c])
\* The same list is written in the other session.
OtherSession ==
    \E x \in Sessions :
       /\ x # fin.session_id
       /\ HashCall([fin EXCEPT !.op = "session", !.session_id = x])

InitHash ==
    /\ InitWorkers
    /\ InitDatabase
    /\ InitHandlers
    /\ InitSettings
    /\ uuidUnique = TRUE
    /\ unread = {}
    /\ runs = [p \in Passes |-> NoRun]
    /\ conn = [w \in Workers |-> "clean"]
    /\ \E x \in Sessions, todos \in TodoLists :
         /\ fin = TodoWrite("first", x, todos, "toolu_1", 1, 1)
         /\ fout = compute_todo_hash(x, todos)

NextHash ==
    \/ PermuteTodos
    \/ RestatusTodo
    \/ Reingest
    \/ RewordTodo
    \/ OtherSession

SpecHash == InitHash /\ [][NextHash]_vars


\* ======================================================================
\* Claims about the reconciler (checked under Spec)
\* ======================================================================
Spawned == 1..nhooks
\* Every spawned worker has returned normally.
Quiescent == nhooks >= 1 /\ \A w \in Spawned : pc[w] = "done"

\* C1 (mutual exclusion): at no instant are two workers of the session both
\* past writing the lock file and not yet past removing it.
C1_MutualExclusion ==
    Cardinality({w \in Workers : pc[w] \in LockedRegion}) <= 1

\* C2 (no lost burst tail): if a hook rewrote the marker while a worker was
\* between acquiring the lock and finishing its clean-up, the marker exists
\* when that worker returns, and once every worker has returned normally a
\* process_transcript pass has begun after that hook's marker write.
C2_MarkerKeptAtExit ==
    \A w \in Workers :
        (pc[w] = "release" /\ pc'[w] = "done" /\ hookDuring[w] > 0)
            => marker' # NoMarker
C2_TailProcessed == Quiescent => lastPassAt >= tailHook
C2_NoLostBurstTail == [][C2_MarkerKeptAtExit]_vars /\ []C2_TailProcessed

\* C3 (last event wins): once every worker of a burst has returned normally,
\* some worker has called process_transcript at or after the last hook's
\* marker update.
C3_LastEventWins == Quiescent => lastPassAt = nhooks

\* C4 (marker clean-up rule): the clean-up reads the marker's current
\* 'latest' and removes the marker if and only if that value equals the
\* 'latest' the worker read before acquiring the lock; when they differ the
\* marker is left as it is.
C4_CleanupStep ==
    \A w \in Workers :
        /\ (pc[w] = "cleanup_read" /\ pc'[w] = "cleanup_decide")
              => cur'[w] = marker.latest /\ marker' = marker
        /\ (pc[w] = "cleanup_decide" /\ pc'[w] # "cleanup_decide")
              => IF cur[w] = lat[w] THEN marker' = NoMarker
                 ELSE marker' = marker
C5_FailureStep ==
    \A w \in Workers :
        /\ (pc[w] \in {"get_session", "process_transcript"} /\ err'[w] # "none")
              => pc'[w] = "release" /\ marker' = marker
        /\ (pc[w] = "release" /\ err[w] # "none" /\ pc'[w] # "release")
              => lock' = NoLock /\ marker' = marker /\ pc'[w] = "worker_error"
        /\ (pc[w] = "worker_error" /\ lat[w] # 0 /\ pc'[w] # "worker_error")
              => /\ logs' = <<w, "Worker error">>
                 /\ marker' = marker
                 /\ pc'[w] = "failed"
C5_FailureSemantics == [][C5_FailureStep]_vars

\* C6 (lock always released): a lock file that exists was written by a worker
\* that is still inside the locked region; so when no worker is running
\* there is no lock file.
C6_LockReleased ==
    /\ lock # NoLock => pc[lock.owner] \in LockedRegion
    /\ (\A w \in Workers : pc[w] \in {"idle"} \cup Exited) => lock = NoLock
\* All workers have exited, the last one through the early return under the
\* lock (marker gone), which wrote and released the lock.
C6_Witness ==
    /\ nhooks = MaxHooks
    /\ \A w \in Workers : pc[w] \in Exited
    /\ \E w \in Workers : logs = <<w, "Marker file gone after lock acquired, skipping">>


\* ======================================================================
\* Claims about the transcript pass (checked under SpecStore)
\* ======================================================================
uuids(m) == {r.uuid : r \in m}
NoDupUuid(m) == \A r1, r2 \in m : r1.uuid = r2.uuid => r1 = r2
StatusVector(todos) == [i \in DOMAIN todos |-> todos[i].status]
Occurrences(x, seq) == Cardinality({i \in DOMAIN seq : seq[i] = x})
\* A step of process_transcript (the only action that changes these).
PassStep == messages' # messages \/ ret' # ret

\* C7 (uuid idempotence): a pass stores no uuid in two rows; a uuid that
\* exists before the pass is skipped (the pass goes on, its row keeps its
\* uuid and body); a pass over the content of the session's previous pass
\* leaves the set of uuids as it was.
C7_PassStep ==
    PassStep =>
        /\ ~ret'.raised
        /\ NoDupUuid(messages')
        /\ \A r \in messages :
              \E r2 \in messages' :
                  r2.id = r.id /\ r2.uuid = r.uuid /\ r2.body = r.body
        /\ ret'.repeat => uuids(messages') = uuids(messages)
C7_UuidIdempotence == [][C7_PassStep]_vars

\* The TodoWrite tool uses a pass over the transcript of s takes as final.
FinalTodoWrites(s) ==
    LET tus == collect_tool_uses(transcript[s], <<>>)
        finals == final_todo_ids(s, tus)
    IN  {tus[i] : i \in {j \in DOMAIN tus : tus[j].name = "TodoWrite"
                                          /\ tus[j].tool_use_id \in finals}}
OneRowPerTodo(m) ==
    \A r1, r2 \in m : (r1.todo_id # NULL /\ r1.todo_id = r2.todo_id) => r1 = r2

\* C8 (one row per todo list): there is at most one row per todo identity;
\* a committed pass whose final TodoWrite for the identity of an existing
\* row carries another status vector replaces that row's tools payload in
\* place and reports the row's id exactly once; with the same status vector
\* (or no TodoWrite of that identity) the row is not modified and not
\* reported; a pass that raises modifies and reports nothing.
C8_PassStep ==
    PassStep =>
        LET s == ret'.session_id IN
        /\ OneRowPerTodo(messages')
        /\ ret'.raised => messages' = messages /\ ret'.changes = <<>>
        /\ ~ret'.raised =>
             \A r \in {x \in messages : x.todo_id # NULL} :
                LET fs == {tu \in FinalTodoWrites(s) :
                              /\ compute_todo_hash(s, tu.todos) = r.todo_id
                              /\ StatusVector(tu.todos)
                                   # StatusVector(r.tools.todos)}
                IN  IF fs # {}
                    THEN /\ \E tu \in fs :
                              [r EXCEPT !.tools = build_tool_json(tu)] \in messages'
                         /\ Cardinality({x \in messages' : x.todo_id = r.todo_id}) = 1
                         /\ Occurrences(r.id, ret'.changes) = 1
                    ELSE /\ r \in messages'
                         /\ Occurrences(r.id, ret'.changes) = 0
C8_OneRowPerTodoList == [][C8_PassStep]_vars
\* The last pass replaced the payload of a todo row written by an earlier
\* TodoWrite, and reported the row.
C8_Witness ==
    /\ ~ret.raised
    /\ \E r \in messages :
          /\ r.todo_id # NULL
          /\ r.tools.tool_use_id # r.uuid
          /\ Occurrences(r.id, ret.changes) = 1


\* ======================================================================
\* Claims about the daemon (checked under SpecDaemon)
\* ======================================================================
\* A step of process_event (the only action that draws from the id
\* sequence of the hooks table); the event is lastEvent'.
EventStep == serial'.hooks # serial.hooks

C9_RowStep ==
    \A s \in Sessions :
        (sessions[s] # NoSession /\ sessions'[s] # NoSession) =>
            /\ sessions'[s].project_id = sessions[s].project_id
            /\ get_session_project_path(s)' = get_session_project_path(s)
            /\ (/\ EventStep
                /\ lastEvent'.session_id = s
                /\ status_of(lastEvent'.hook_event_name,
                             lastEvent'.notification_type) # NULL)
                  => /\ sessions'[s].status
                          = status_of(lastEvent'.hook_event_name,
                                      lastEvent'.notification_type)
                     /\ sessions'[s].transcript_path = lastEvent'.transcript_path
ExpectedStatus(ev) ==
    CASE ev.hook_event_name = "SessionStart" -> "started"
      [] ev.hook_event_name = "UserPromptSubmit" -> "active"
      [] ev.hook_event_name = "PreToolUse" -> "active"
      [] ev.hook_event_name = "PostToolUse" -> "active"
      [] ev.hook_event_name = "Stop" -> "done"
      [] ev.hook_event_name = "SessionEnd" -> "ended"
      [] ev.hook_event_name = "Notification"
           /\ ev.notification_type = "permission_prompt" -> "permission_needed"
      [] ev.hook_event_name = "Notification"
           /\ ev.notification_type = "idle_prompt" -> "idle"
      [] OTHER -> NULL

\* C10 (session state machine): after the daemon has processed a hook of
\* session S, the stored status of S is the one the hook maps to, whatever
\* it was before; a hook that maps to no status leaves the row of S as it
\* was (absent, or unmodified).
C10_EventStep ==
    EventStep =>
        LET ev == lastEvent'
            S == ev.session_id
        IN  IF ExpectedStatus(ev) # NULL
            THEN sessions'[S] # NoSession /\ sessions'[S].status = ExpectedStatus(ev)
            ELSE sessions'[S] = sessions[S]
C10_SessionStateMachine == [][C10_EventStep]_vars
\* A Stop hook had set the session to 'done'; the last hook, a notification
\* of an unmapped type, left it there.
C10_Witness ==
    \E s \in Sessions :
        /\ lastEvent.session_id = s
        /\ lastEvent.hook_event_name = "Notification"
        /\ lastEvent.notification_type = "auth_success"
        /\ \E i \in DOMAIN hooks :
              hooks[i].session_id = s /\ hooks[i].hook_type = "Stop"
        /\ sessions[s] # NoSession
        /\ sessions[s].status = "done"

\* ======================================================================
\* Claims about bursts and lock waiting (checked under Spec and SpecLive)
\* ======================================================================
\* C17 (burst coalescing): when all the hooks of a burst arrive less than
\* DEBOUNCE_SECONDS after the first, at most two of the spawned workers call
\* process_transcript, and once every worker has returned the last call was
\* made by a worker that had read the final marker, and the marker is deleted.
C17_BurstCoalescing ==
    /\ burst => Len(passes) <= 2
    /\ (burst /\ Quiescent /\ passes # <<>>) =>
           /\ passes[Len(passes)] = nhooks
           /\ marker = NoMarker

\* Positions of the lock-wait loop (worker.py:574-587).
LockWait == {"lock_exists", "lock_read", "lock_unlink", "lock_sleep"}

\* The steps of worker w in the lock-wait loop: a lock younger than
\* lock_timeout sends it to sleep with the record 'Waiting for lock' and
\* not into the locked region; it leaves the sleep after lock_wait_interval
\* only, to look at the lock again; a lock of at least lock_timeout is
\* deleted and the worker goes on to write its own.
C18_WaitStep(w) ==
    /\ (pc[w] = "lock_read" /\ pc'[w] # "lock_read" /\ lock # NoLock) =>
          IF lock.age < DEBOUNCE_SECONDS * 30
          THEN /\ pc'[w] = "lock_sleep"
               /\ logs' = <<w, "Waiting for lock">>
               /\ lock' = lock
          ELSE pc'[w] = "lock_unlink"
    /\ (pc[w] = "lock_sleep" /\ pc'[w] # "lock_sleep") =>
          /\ slept[w] >= 1
          /\ pc'[w] \in {"lock_read", "lock_write"}
    /\ (pc[w] = "lock_unlink" /\ pc'[w] # "lock_unlink") =>
          /\ lock' = NoLock
          /\ pc'[w] = "lock_write"

Deleted(x) == sessions[x] # NoSession /\ sessions'[x] = NoSession
PromptsOf(x) == {q \in prompts : q.session_id = x}
MessagesOf(x) == {r \in messages : \E q \in PromptsOf(x) : r.prompt_id = q.id}

\* C13 (favorite safety): no run of the sweeper deletes a session that is
\* listed in settings.config.favorite_sessions at the time of the run.
C13_FavoriteStep == \A x \in favorite_sessions : ~Deleted(x)
C13_FavoriteSafety == [][C13_FavoriteStep]_vars

\* C14 (empty-session policy): the empty-sessions step of a sweeper run
\* deletes a session only if it has no message and at most one prompt, whose
\* body is null (any other session a run deletes has not been updated for a
\* week and goes in the weekly part of a run that is due).
C14_SweepStep ==
    \A x \in Sessions :
        Deleted(x) =>
            \/ /\ MessagesOf(x) = {}
               /\ Cardinality(PromptsOf(x)) <= 1
               /\ \A q \in PromptsOf(x) : q.prompt = NULL
            \/ /\ ~sweepIn'.recent
               /\ sweepIn'.age[x] > 7 * 24 * 60
C15_SweepStep ==
    \A x \in Sessions :
        (sessions[x] # NoSession /\ sessions'[x] # NoSession) =>
            /\ (/\ sessions[x].status \in {"started", "active", "permission_needed"}
                /\ sweepIn'.age[x] > 5)
               => sessions'[x].status = "ended"
            /\ sessions[x].status \in {"done", "idle", "ended"}
               => sessions'[x].status = sessions[x].status
C15_InactivityTimeout == [][C15_SweepStep]_vars

\* C16 (SessionStart stale sweep): a SessionStart hook of session c that
\* resolves to project p deletes exactly the other sessions of p that are
\* 'started', with their messages, prompts and hook records, in the hook's
\* transaction, and then creates one prompt without a body for c.
C16_HookStep ==
    LET ev == lastEvent'
        c == ev.session_id
        p == CHOOSE r \in projects' : r.path = project_path_of(ev)
        stale == {x \in Sessions \ {c} :
                     /\ sessions[x] # NoSession
                     /\ sessions[x].project_id = p.id
                     /\ sessions[x].status = "started"}
        new == prompts' \ prompts
    IN  (serial' # serial /\ ev.hook_event_name = "SessionStart") =>
          /\ \A x \in Sessions : Deleted(x) <=> x \in stale
          /\ sessions'[c] # NoSession
          /\ messages' = messages \ UNION {MessagesOf(x) : x \in stale}
          /\ prompts \ prompts' = UNION {PromptsOf(x) : x \in stale}
          /\ hooks' = Append(SelectSeq(hooks, LAMBDA h : h.session_id \notin stale),
                             [session_id |-> c, hook_type |-> "SessionStart"])
          /\ Cardinality(new) = 1
          /\ \A q \in new : q.session_id = c /\ q.prompt = NULL
C11_AlwaysContinue ==
    \A t \in Threads :
        /\ Len(responses[t]) <= 1
        /\ \A i \in DOMAIN responses[t] : responses[t][i] = [continue |-> TRUE]
        /\ (hpc[t] = "closed" /\ req[t].kind # "empty") => Len(responses[t]) = 1

\* A handler has answered an envelope whose processing raised (nothing of
\* it was committed, or no worker was started for its session).
C11_Witness ==
    \E t \in Threads :
        /\ hpc[t] = "closed"
        /\ req[t].kind = "envelope"
        /\ \/ \A i \in DOMAIN committed : committed[i].thread # t
           \/ spawned[req[t].event.session_id] = 0
        /\ responses[t] = <<[continue |-> TRUE]>>

\* C12 (hook persistence is atomic): what is committed of a hook is all of
\* its store effects together with its 'hook' notification, and when its
\* processing raises nothing of it is committed and none of its
\* notifications ('hook', 'sessions_deleted') is delivered.
C12_AtomicHook ==
    /\ \A i \in DOMAIN committed :
          /\ committed[i].done = 9
          /\ \E j \in DOMAIN delivered :
                delivered[j] = [channel |-> "hook", thread |-> committed[i].thread]
    /\ \A j \in DOMAIN delivered :
          \E i \in DOMAIN committed :
             committed[i].thread = delivered[j].thread /\ committed[i].done = 9

\* C19 (hook ordering): no two database sections overlap, and the hooks of
\* one session are committed in the order in which the daemon received them
\* (the threads are numbered in that order).
C19_HookOrdering ==
    /\ Cardinality({t \in Threads :
            hpc[t] \in {"get_conn", "db_section", "commit", "except"}}) <= 1
    /\ \A i, j \in DOMAIN committed :
          (/\ i < j
           /\ committed[i].done = 9 /\ committed[j].done = 9
           /\ req[committed[i].thread].event.session_id
                 = req[committed[j].thread].event.session_id)
          => committed[i].thread < committed[j].thread

\* ======================================================================
\* Claims about local-command entries (checked under SpecFilter)
\* ======================================================================
\* The text carries one of the three markers of a synthetic entry.
Synthetic(text) ==
    \E mk \in {"<local-command-stdout>", "<local-command-caveat>", "<command-name>"} :
        \E i \in 1..Len(text) : \E j \in i..Len(text) : SubSeq(text, i, j) = mk

\* A committed pass over session s has stored every other entry with a text.
C20_PassStep ==
    (ret' # ret /\ ~ret'.raised) =>
        \A i \in DOMAIN transcript[ret'.session_id] :
            LET e == transcript[ret'.session_id][i] IN
            (e.text # "" /\ ~Synthetic(e.text)) =>
                \E r \in messages' : r.uuid = e.uuid

\* C20 (synthetic-command filter): after any passes over any transcripts no
\* stored user message has a body with '<local-command-stdout>',
\* '<local-command-caveat>' or '<command-name>' in it, no session name and no
\* prompt body is such a text, and a pass that skips such an entry still
\* stores the other entries of the transcript.
C20_SyntheticFilter ==
    /\ [](/\ \A r \in messages : r.is_user => ~Synthetic(r.body)
          /\ \A x \in Sessions : ~Synthetic(sessions[x].name)
          /\ \A q \in prompts : ~Synthetic(q.prompt))
    /\ [][C20_PassStep]_vars

\* A pass over a transcript with a local-command entry and an assistant
\* text has stored the assistant's message only.
C20_Witness ==
    /\ ret.session_id = "s2" /\ ~ret.raised
    /\ \E i \in DOMAIN transcript["s2"] : Synthetic(transcript["s2"][i].text)
    /\ \E r \in messages : r.uuid = "u5" /\ ~r.is_user
    /\ Cardinality(messages) = 1
    /\ passed["s2"] = Len(transcript["s2"])

\* ======================================================================
\* Claims about the pure functions (checked under SpecHash, SpecDiff)
\* ======================================================================
\* The number of todos of a list whose content is c.
ContentCount(todos, c) ==
    Cardinality({i \in DOMAIN todos : todos[i].content = c})

\* C21 (todo-hash stability): compute_todo_hash depends only on the session
\* id and the multiset of the todos' contents: two successive calls for the
\* same session whose lists hold every content the same number of times
\* return the same hash, whatever the order of the todos, their statuses,
\* the tool-use id, the prompt id and the number of the ingestion attempt.
C21_HashStep ==
    (/\ fin'.session_id = fin.session_id
     /\ \A c \in TodoContents :
           ContentCount(fin'.todos, c) = ContentCount(fin.todos, c))
    => fout' = fout
C21_TodoHashStability == [][C21_HashStep]_vars

\* A list of different contents has been written a second time in another
\* order, under another tool-use id and prompt (and got the same hash).
C21_Witness ==
    /\ fin.op = "permute"
    /\ fin.attempt > 1
    /\ fin.tool_use_id # "toolu_1"
    /\ fin.prompt_id # 1
    /\ Len(fin.todos) >= 2
    /\ fin.todos[1].content # fin.todos[2].content
    /\ fin.todos[1].status # "pending"
    /\ fout = compute_todo_hash(fin.session_id, <<fin.todos[2], fin.todos[1]>>
                                   \o SubSeq(fin.todos, 3, Len(fin.todos)))

\* The lines of a text, without their line ends.
LinesOf(text) == splitlines(text, FALSE)
\* The number of lines of xs left over when each line of ys has been matched
\* with one equal line of xs (the size of the multiset difference).
Unmatched(xs, ys) ==
    LET count(zs, l) == Cardinality({x \in DOMAIN zs : zs[x] = l})
        RECURSIVE total(_)
        total(ls) ==
            IF ls = {} THEN 0
            ELSE LET l == CHOOSE z \in ls : TRUE
                 IN  Max(count(xs, l) - count(ys, l), 0) + total(ls \ {l})
    IN  total({xs[x] : x \in DOMAIN xs})

\* C22 (diff arithmetic): generate_diff(old, new, path) returns lines_added
\* equal to the number of lines of new not matched by a line of old and
\* lines_removed equal to the number of lines of old not matched by a line
\* of new, whatever the lines begin with and whether or not the last line
\* ends with a newline.
C22_DiffArithmetic ==
    (fin.op = "Edit" /\ fout # NoCall) =>
       /\ fout.lines_added
            = Unmatched(LinesOf(fin.new_string), LinesOf(fin.old_string))
       /\ fout.lines_removed
            = Unmatched(LinesOf(fin.old_string), LinesOf(fin.new_string))

\* ======================================================================
\* Claims about the reconciler's gates (checked under Spec)
\* ======================================================================
\* C23 (debounce gate): a worker that after its debounce sleep reads a marker
\* whose 'latest' is not its own timestamp and whose 'start' is less than
\* DEBOUNCE_SECONDS old exits (logging that it skips) without touching the
\* lock file or the marker, without a transcript pass and without writing to
\* the store; a worker whose timestamp is the marker's 'latest', or whose
\* marker is at least DEBOUNCE_SECONDS old, goes on to the lock acquisition.
C23_GateStep(w) ==
    (pc[w] = "read_marker" /\ pc'[w] # "read_marker" /\ marker # NoMarker) =>
       /\ lock' = lock
       /\ marker' = marker
       /\ UNCHANGED <<lastPassAt, passes, dbVars>>
       /\ IF marker.latest # w /\ marker.start < DEBOUNCE_SECONDS
          THEN /\ pc'[w] = "done"
               /\ logs' = <<w, "Newer event detected, skipping">>
          ELSE /\ pc'[w] = "lock_exists"
               /\ lat'[w] = marker.latest
C23_DebounceGate == [][\A w \in Workers : C23_GateStep(w)]_vars

\* A worker has skipped at the gate and left the marker of the newer hook
\* and the lock of a running worker in place.
C23_Witness ==
    \E w \in Workers :
       /\ pc[w] = "done"
       /\ logs = <<w, "Newer event detected, skipping">>
       /\ marker # NoMarker
       /\ marker.latest # w
       /\ marker.start < DEBOUNCE_SECONDS
       /\ lock # NoLock

\* C24 (marker re-check under the lock): a worker that has written the lock
\* and then finds the marker gone goes straight to the release of the lock
\* and exits: it makes no transcript pass, writes nothing to the store and
\* publishes no session_update.
C24_RecheckStep(w) ==
    /\ (pc[w] = "recheck_marker" /\ pc'[w] # "recheck_marker"
          /\ marker = NoMarker) =>
           /\ pc'[w] = "release"
           /\ err'[w] = "none"
           /\ logs' = <<w, "Marker file gone after lock acquired, skipping">>
           /\ UNCHANGED <<marker, lastPassAt, passes, dbVars>>
    /\ (pc[w] = "release" /\ pc'[w] # "release" /\ err[w] = "none") =>
           /\ pc'[w] = "done"
           /\ lock' = NoLock
           /\ UNCHANGED <<marker, lastPassAt, passes, dbVars>>
C24_MarkerRecheck == [][\A w \in Workers : C24_RecheckStep(w)]_vars

\* A worker found the marker gone under the lock and has exited; the lock is
\* released.
C24_Witness ==
    \E w \in Workers :
       /\ pc[w] = "done"
       /\ logs = <<w, "Marker file gone after lock acquired, skipping">>
       /\ marker = NoMarker
       /\ lock = NoLock

\* C29 (transcript read errors keep the retry trigger): when the transcript
\* cannot be read inside the locked region, no message is created, the lock
\* is released, and the worker leaves the marker in place, so that a later
\* worker makes the pass again.
C29_UnreadStep(w) ==
    /\ (pc[w] = "process_transcript" /\ w \in unread') =>
          UNCHANGED <<dbVars, marker>>
    /\ (w \in unread /\ pc'[w] # pc[w]) =>
          /\ marker' = marker
          /\ UNCHANGED dbVars
          /\ pc[w] = "release" => lock' = NoLock
C29_ReadErrorKeepsMarker == [][\A w \in Workers : C29_UnreadStep(w)]_vars

\* ======================================================================
\* Claims about the daemon's post-commit actions (checked under SpecServer)
\* ======================================================================
\* The handler thread t makes its post-commit step.
PostCommitStep(t) == hpc[t] = "post_commit" /\ hpc'[t] # "post_commit"
\* The database section of thread t was committed as a whole (line 235).
Committed(t) ==
    \E i \in DOMAIN committed : committed[i] = [thread |-> t, done |-> 9]
\* The worker.py processes started so far.
Reconcilers == spawned["s1"] + spawned["s2"]

\* C25 (sweeper spawn rule): the post-commit actions of a committed hook
\* start a sweeper if and only if the hook is not a SessionStart; for a
\* SessionStart they start the reconciler of the session (which updates its
\* marker) and nothing else.  (A start that raises OSError starts nothing
\* further.)
C25_SpawnStep(t) ==
    LET hook_type == req[t].event.hook_event_name
        session_id == req[t].event.session_id
    IN  PostCommitStep(t) =>
          /\ sweepers' \in {sweepers, sweepers + 1}
          /\ sweepers' # sweepers => hook_type # "SessionStart"
          /\ hpc'[t] = "respond" =>
                /\ spawned' = [spawned EXCEPT ![session_id] = @ + 1]
                /\ sweepers' = sweepers + 1 <=> hook_type # "SessionStart"
C26_OrderStep ==
    (spawned' # spawned \/ sweepers' # sweepers) =>
       \E t \in Threads :
          /\ PostCommitStep(t)
          /\ Committed(t)
          /\ db_lock # t
          /\ herr[t] = "none"
          /\ \A x \in Sessions :
                spawned'[x] # spawned[x] => x = req[t].event.session_id
C26_PostCommitOrdering == [][C26_OrderStep]_vars

\* The handler of a committed hook has started the reconciler of its session
\* and is through; the processing of the other handler's hook has failed and
\* nothing was started for it.
C26_Witness ==
    \E t, u \in Threads :
       /\ Committed(t)
       /\ hpc[t] \in {"respond", "closed"}
       /\ spawned[req[t].event.session_id] = 1
       /\ Reconcilers = 1
       /\ hpc[u] \in {"respond", "closed"}
       /\ req[u].kind = "envelope"
       /\ ~Committed(u)

\* ======================================================================
\* Claims about the order and the races of passes (checked under SpecStore,
\* SpecRace)
\* ======================================================================
\* The place in the transcript of s of the entry a message with this uuid
\* comes from (the uuid of a text entry, the id of a tool use).
EntryIndex(s, uuid) ==
    LET is == {i \in DOMAIN transcript[s] :
                  \/ transcript[s][i].uuid = uuid
                  \/ transcript[s][i].tool_use_id = uuid}
    IN  CHOOSE i \in is : \A j \in is : i <= j
\* The rows a step inserts.
Created == {r \in messages' : \A q \in messages : q.id # r.id}
PositionIn(seq, x) == CHOOSE i \in DOMAIN seq : seq[i] = x

\* C27 (transcript order within a run): of two messages created in the same
\* pass, tool-call or text, the one whose entry comes earlier in the
\* transcript gets the smaller id and the earlier place in the change list.
C27_PassStep ==
    (PassStep /\ ~ret'.raised) =>
       LET s == ret'.session_id IN
       \A r1, r2 \in Created :
          EntryIndex(s, r1.uuid) < EntryIndex(s, r2.uuid) =>
             /\ r1.id < r2.id
             /\ PositionIn(ret'.changes, r1.id) < PositionIn(ret'.changes, r2.id)
C27_TranscriptOrder == [][C27_PassStep]_vars

\* ======================================================================
\* Claims about the sweeper's notifications (checked under SpecSweeper)
\* ======================================================================
\* The sessions a run deletes as empty: without a message, with at most one
\* prompt, and that one without a body.
DeletedEmpty ==
    {x \in Sessions : /\ Deleted(x)
                      /\ MessagesOf(x) = {}
                      /\ Cardinality(PromptsOf(x)) <= 1
                      /\ \A q \in PromptsOf(x) : q.prompt = NULL}

\* C30 (the sweeper announces deletions): a sweeper run that deletes sessions
\* in its empty-session step publishes one sessions_deleted notification,
\* whose session_ids are the sessions deleted; a run that deletes none
\* publishes none.
C30_SweepStep ==
    IF DeletedEmpty = {}
    THEN delivered' = delivered
    ELSE /\ Len(delivered') = Len(delivered) + 1
         /\ delivered'[Len(delivered')].channel = "sessions_deleted"
         /\ delivered'[Len(delivered')].session_ids = DeletedEmpty
C30_SweeperAnnouncesDeletions == [][C30_SweepStep]_vars

\* C28 (uuid uniqueness races are harmless): when the uuid a pass is about
\* to insert has been committed by another pass since this pass tested for
\* it, the pass takes the message as ingested: it skips it, keeps what it has
\* inserted, goes on with the remaining entries and does not fail.
C28_InsertStep(p) ==
    (/\ runs[p].pc = "insert"
     /\ runs'[p] # runs[p]
     /\ message_exists(messages, Head(runs[p].todo).uuid)) =>
        /\ runs'[p].pc \in {"check", "finish"}
        /\ runs'[p].todo = Tail(runs[p].todo)
        /\ runs'[p].rows = runs[p].rows
        /\ runs'[p].new = runs[p].new
C28_UniquenessRaceHarmless == [][\A p \in Passes : C28_InsertStep(p)]_vars

\* ----------------------------------------------------------------------
\* Claims about what a pass stores (checked under SpecTitle, SpecStore)
\* ----------------------------------------------------------------------
\* C31 (session name length bound): in every reachable state the name of
\* every session has at most NAME_MAX characters, whichever of
\* update_session_metadata, update_session_name_if_empty and the custom
\* title of the transcript set it last.
C31_SessionNameBound ==
    \A s \in Sessions :
        (sessions[s] # NoSession /\ sessions[s].name # NULL) =>
            Len(sessions[s].name) <= NAME_MAX

\* The lines of the transcript of s that hold a TodoWrite, and those of them
\* that are the last of their todo identity in the file.
TodoWriteLines(s) ==
    {i \in DOMAIN transcript[s] :
        transcript[s][i].tool_use_id # "" /\ transcript[s][i].name = "TodoWrite"}
LastOfIdentity(s, i) ==
    \A j \in TodoWriteLines(s) :
        compute_todo_hash(s, transcript[s][j].todos)
            = compute_todo_hash(s, transcript[s][i].todos) => j <= i

\* C32 (final TodoWrite only): after a committed pass over the transcript of
\* s, the row of every todo identity in the file carries the payload of the
\* TodoWrite that comes last in the file among those of the identity, the id
\* of the row is in the change list at most once, and no TodoWrite that is
\* not the last of its identity is stored as a message by the pass.
C32_PassStep ==
    (PassStep /\ ~ret'.raised) =>
       LET s == ret'.session_id
           lasts == {i \in TodoWriteLines(s) : LastOfIdentity(s, i)}
       IN
       /\ \A i \in lasts :
             \E r \in messages' :
                /\ r.todo_id = compute_todo_hash(s, transcript[s][i].todos)
                /\ r.tools = build_tool_json(transcript[s][i])
                /\ Occurrences(r.id, ret'.changes) <= 1
       /\ \A i \in TodoWriteLines(s) \ lasts :
             (\A j \in lasts : transcript[s][j].tool_use_id
                                  # transcript[s][i].tool_use_id) =>
                ~\E r \in Created : r.uuid = transcript[s][i].tool_use_id
C32_FinalTodoWriteOnly == [][C32_PassStep]_vars

\* The statuses the todos with content c have in a todo list.
StatusesOf(todos, c) ==
    {todos[i].status : i \in {j \in DOMAIN todos : todos[j].content = c}}
StatusChanged(old, new) ==
    \E i \in DOMAIN new :
        StatusesOf(old, new[i].content) # StatusesOf(new, new[i].content)

\* C33 (the state key detects every status change): when the final TodoWrite
\* of a committed pass has the identity of an existing row and gives some
\* todo another status than the row's payload does, in whatever order the
\* todos are listed, its state key differs from the row's, the payload of
\* the row is replaced and the row is reported once.
C33_PassStep ==
    (PassStep /\ ~ret'.raised) =>
       LET s == ret'.session_id IN
       \A r \in {x \in messages : x.todo_id # NULL} :
          \A tu \in FinalTodoWrites(s) :
             (/\ compute_todo_hash(s, tu.todos) = r.todo_id
              /\ StatusChanged(r.tools.todos, tu.todos)) =>
                 /\ compute_state_key(tu.todos) # r.tools.state_key
                 /\ [r EXCEPT !.tools = build_tool_json(tu)] \in messages'
                 /\ Occurrences(r.id, ret'.changes) = 1
C33_StateKeyDetectsChange == [][C33_PassStep]_vars

\* worker.py:608-614  the session_update notification of a pass: sent when
\* new_messages is not empty, with the ids of new_messages
Published(outcome) == outcome.changes # <<>>
\* The ids of the rows a step inserts or modifies.
Touched == {r.id : r \in messages' \ messages}

\* C34 (re-running is silent): a committed pass lists in its change list,
\* once each, exactly the ids of the rows it created or changed, and sends
\* session_update exactly when there is such a row; a pass over the
\* transcript of the session's previous committed pass creates and changes
\* no row, returns an empty change list and sends nothing.
C34_PassStep ==
    PassStep =>
       /\ ~ret'.raised =>
             /\ {ret'.changes[i] : i \in DOMAIN ret'.changes} = Touched
             /\ \A id \in Touched : Occurrences(id, ret'.changes) = 1
             /\ Published(ret') <=> Touched # {}
       /\ ret'.repeat =>
             /\ messages' = messages
             /\ ret'.changes = <<>>
             /\ ~Published(ret')
C35_RemoveStep(w) ==
    (lock # NoLock /\ lock' = NoLock /\ pc'[w] # pc[w]) =>
        /\ pc[w] = "release" => lock.owner = w
        /\ lock.owner # w => pc[lock.owner] \notin LockedRegion
C35_LockOwnership == [][\A w \in Workers : C35_RemoveStep(w)]_vars

\* C36 (writes are committed under the lock): whenever the statements of a
\* worker's pass are committed, the worker is inside the locked region and
\* has not yet come to deleting the marker or to releasing the lock.
C36_CommitStep(w) ==
    (conn[w] # "committed" /\ conn'[w] = "committed") =>
        /\ pc[w] \in CleanupWindow
        /\ pc'[w] \in CleanupWindow
C36_CommittedUnderLock == [][\A w \in Workers : C36_CommitStep(w)]_vars

\* ======================================================================
\* Claims about passes, hooks and sweeper runs at the same time (checked
\* under SpecMixed)
\* ======================================================================
\* C37 (referential integrity under interleaving): in every reachable state
\* every message belongs to a prompt that exists and every prompt to a
\* session that exists, also when a pass has read its prompt id before the
\* session was deleted.
C37_ReferentialIntegrity ==
    /\ \A r \in messages : \E q \in prompts : q.id = r.prompt_id
    /\ \A q \in prompts : sessions[q.session_id] # NoSession

\* ======================================================================
\* Claims about fresh sessions and sweeper runs (checked under SpecDaemon)
\* ======================================================================
\* Session x is freshly started: the last hook processed for it is a
\* SessionStart, and it has one prompt, without a body, and no message.
FreshlyStarted(x) ==
    LET hs == {i \in DOMAIN hooks : hooks[i].session_id = x} IN
    /\ sessions[x] # NoSession
    /\ hs # {}
    /\ hooks[CHOOSE i \in hs : \A j \in hs : j <= i].hook_type = "SessionStart"
    /\ Cardinality(PromptsOf(x)) = 1
    /\ \A q \in PromptsOf(x) : q.prompt = NULL
    /\ MessagesOf(x) = {}

\* C38 (a freshly started session is not collected): no run of the sweeper,
\* whichever hook started it, deletes a session whose last processed hook is
\* its SessionStart.
C38_SweepStep ==
    sweepers' < sweepers =>
        \A x \in Sessions : FreshlyStarted(x) => sessions'[x] # NoSession
C38_FreshSessionKept == [][C38_SweepStep]_vars

\* ======================================================================
\* Claims about tool results (checked under SpecResult)
\* ======================================================================
\* The tool uses of pass 1 other than TodoWrite, each with its result.
RegularTools(s) ==
    LET tus == with_results(collect_tool_uses(transcript[s], <<>>), transcript[s])
    IN  {tus[i] : i \in {j \in DOMAIN tus : IsRegularTool(tus[j])}}

\* C39 (tool messages follow the transcript): after every committed pass,
\* the stored message of each tool use of the transcript other than
\* TodoWrite carries the status and the output projected from the transcript
\* the pass read; so a tool use stored by a pass that read no result for it
\* carries, after a later pass that reads the result, that result's status
\* and output.
C39_PassStep ==
    (PassStep /\ ~ret'.raised) =>
       \A tu \in RegularTools(ret'.session_id) :
          \A r \in {x \in messages' : x.uuid = tu.tool_use_id /\ x.tools # NoTools} :
             /\ r.tools.status = build_tool_json(tu).status
             /\ r.tools.output = build_tool_json(tu).output
C39_ToolMessagesFollow == [][C39_PassStep]_vars

\* ======================================================================
\* Claims about passes and sweeper runs (checked under SpecLifetime)
\* ======================================================================
\* The uuid is that of a line the session's previous committed pass read
\* (passed: the length of the transcript at that pass; the transcript only
\* grows), so that pass stored it or found it stored.
IngestedEarlier(s, uuid) ==
    \E i \in DOMAIN transcript[s] :
       /\ i <= passed[s]
       /\ \/ IsTextItem(transcript[s][i]) /\ transcript[s][i].uuid = uuid
          \/ /\ transcript[s][i].type = "assistant"
             /\ IsRegularTool(transcript[s][i])
             /\ transcript[s][i].tool_use_id = uuid

\* C40 (at-most-once creation over the session's lifetime): over passes and
\* sweeper runs, a committed pass neither inserts a row for, nor lists in its
\* session_update as new, the uuid of a text or tool line that an earlier
\* committed pass of the session had ingested.
C40_PassStep ==
    (PassStep /\ ~ret'.raised) =>
       \A r \in messages' \ messages :
          r.todo_id = NULL =>
             ~(/\ IngestedEarlier(ret'.session_id, r.uuid)
               /\ \/ ~\E x \in messages : x.id = r.id
                  \/ \E i \in DOMAIN ret'.changes : ret'.changes[i] = r.id)
C40_AtMostOnceCreation == [][C40_PassStep]_vars

====
